---- MODULE Spec2Model ----
(***************************************************************************)
(* Model of the library administration services: the generic record store  *)
(* over a tabular sheet (BaseEntityService), the member and item services  *)
(* and the loan workflow (LoanService).  A sheet is a sequence of rows,    *)
(* row 1 being the header; a row is a sequence of string cells; a date     *)
(* cell holds the 'yyyy-MM-dd' text the services write.                    *)
(***************************************************************************)
EXTENDS Integers, Sequences, FiniteSets, TLC

VARIABLES borrowers, media, loans, nextId, now, tz, last, props, drive

vars == <<borrowers, media, loans, nextId, now, tz, last, props, drive>>

---------------------------------------------------------------------------
(* Bounds of the model *)

\* number of checkouts that reach the id generator
MaxIds == 1
\* number of 24-hour steps the clock takes
MaxTicks == 1
\* largest day number (days since 2024-01-01) an extension may move a due date to:
\* 2024-01-30
MaxDay == 29

---------------------------------------------------------------------------
(* Schema registry *)

BORROWER_COLUMNS == <<"id", "name", "email", "phone", "status", "joinDate", "notes">>

MEDIA_COLUMNS == <<"id", "title", "author", "type", "isbn", "status", "notes">>

LOAN_COLUMNS == <<"id", "borrowerId", "mediaId", "checkoutDate", "dueDate", "returnDate", "status">>

DEFAULT_LOAN_DAYS == 14

BorrowerSvc == [sheetName |-> "Borrowers", columns |-> BORROWER_COLUMNS]

MediaSvc == [sheetName |-> "Media", columns |-> MEDIA_COLUMNS]

LoanSvc == [sheetName |-> "Loans", columns |-> LOAN_COLUMNS]

---------------------------------------------------------------------------
(* Dates.  An instant is a number of hours since 2024-01-01T00:00Z; the    *)
(* script time zone is a fixed offset of tz hours from UTC.                *)

DaysInMonth(y, m) ==
  IF m = 2 THEN (IF (y % 4 = 0 /\ y % 100 # 0) \/ y % 400 = 0 THEN 29 ELSE 28)
  ELSE IF m \in {4, 6, 9, 11} THEN 30 ELSE 31

RECURSIVE CivilFrom(_, _, _)
\* year, month and day of the day that lies n days after the first of month m of year y
CivilFrom(y, m, n) ==
  IF n < DaysInMonth(y, m) THEN <<y, m, n + 1>>
  ELSE CivilFrom(IF m = 12 THEN y + 1 ELSE y, IF m = 12 THEN 1 ELSE m + 1,
                 n - DaysInMonth(y, m))

Pad2(k) == IF k < 10 THEN "0" \o ToString(k) ELSE ToString(k)

\* the text yyyy-MM-dd of day number d (d = 0 is 2024-01-01)
formatDateString(d) ==
  LET c == CivilFrom(2024, 1, d)
  IN  ToString(c[1]) \o "-" \o Pad2(c[2]) \o "-" \o Pad2(c[3])

\* the day numbers of the dates a sheet can hold: from 2024-01-01 to the day a loan
\* taken out on the last day of the run and extended once falls due
Days == 0..(14 + MaxTicks + 2 * DEFAULT_LOAN_DAYS)

DateTable == [d \in Days |-> formatDateString(d)]

NaN == -1

\* new Date('yyyy-MM-dd'): a date-only text is read as midnight UTC of that day
newDate(s) ==
  IF \E d \in Days : DateTable[d] = s
  THEN 24 * (CHOOSE d \in Days : DateTable[d] = s)
  ELSE NaN

\* the calendar day, in the script time zone, that instant t falls on
localDay(t, zone) == (t + zone) \div 24

\* Utilities.formatDate(t, Session.getScriptTimeZone(), 'yyyy-MM-dd')
formatDate(t, zone) ==
  IF localDay(t, zone) \in DOMAIN DateTable THEN DateTable[localDay(t, zone)]
  ELSE formatDateString(localDay(t, zone))

\* d.setDate(d.getDate() + n): n calendar days later at the same local time
addDays(t, n) == t + 24 * n

\* d.setHours(0, 0, 0, 0): midnight, in the script time zone, of the day t falls on
startOfDay(t, zone) == 24 * localDay(t, zone) - zone

---------------------------------------------------------------------------
(* Record store: BaseEntityService *)

NULL == [null |-> TRUE]

Unavailable(svc) ==
  "Could not access " \o svc.sheetName \o " master spreadsheet. Run Setup first."

NotFound(svc, id) == svc.sheetName \o " with ID " \o id \o " not found"

ColIndex(columns, k) == CHOOSE i \in 1..Len(columns) : columns[i] = k

ColSet(columns) == {columns[i] : i \in 1..Len(columns)}

\* the conversion that fills a short row with empty cells
rowToEntity_filled(columns, row) ==
  [k \in ColSet(columns) |->
     IF ColIndex(columns, k) <= Len(row) THEN row[ColIndex(columns, k)] ELSE ""]

rowToEntity(columns, row) ==
  IF Len(row) < Len(columns) THEN NULL
  ELSE [k \in ColSet(columns) |-> row[ColIndex(columns, k)]]

entityToRow(columns, entity) ==
  [i \in 1..Len(columns) |->
     IF columns[i] \in DOMAIN entity THEN entity[columns[i]] ELSE ""]

\* the column of the last cell of the row that holds something, 0 when none does
lastColumn(row) ==
  LET used == {j \in 1..Len(row) : row[j] # ""}
  IN  IF used = {} THEN 0 ELSE CHOOSE j \in used : \A x \in used : x <= j

\* the rows are of one length and the last cell of the first row holds something
isFull(sheet) ==
  /\ Len(sheet[1]) >= 1
  /\ sheet[1][Len(sheet[1])] # ""
  /\ \A i \in 1..Len(sheet) : Len(sheet[i]) = Len(sheet[1])

\* sheet.getDataRange().getValues(): the rows s of the sheet down to the last one, each
\* cut or filled with empty cells to the last column that holds something in any row,
\* which leaves a full sheet as it is; a sheet that holds nothing reads as one row of
\* one empty cell
getValues(sheet) ==
  CHOOSE data \in
    {IF Len(s) = 0 THEN << <<"">> >>
     ELSE IF isFull(s) THEN s
     ELSE LET ends == {lastColumn(s[i]) : i \in 1..Len(s)} \cup {1}
              width == CHOOSE w \in ends : \A x \in ends : x <= w
          IN  [i \in 1..Len(s) |->
                 [j \in 1..width |-> IF j <= Len(s[i]) THEN s[i][j] ELSE ""]] :
     s \in {sheet}} : TRUE

\* the positions, below the header, of the rows whose first cell is id; the first
\* cell of a row is the same in the sheet and in the values read from it
Matches(sheet, id) ==
  {i \in 2..Len(sheet) : Len(sheet[i]) >= 1 /\ sheet[i][1] = id}

Min(S) == CHOOSE x \in S : \A y \in S : x <= y

RECURSIVE collect(_, _, _)
collect(columns, sheet, i) ==
  IF i > Len(sheet) THEN << >>
  ELSE LET e == rowToEntity(columns, sheet[i])
       IN  (IF e = NULL THEN << >> ELSE <<e>>) \o collect(columns, sheet, i + 1)

\* open tells whether the master spreadsheet of the kind could be opened
getAll(svc, open, sheet) ==
  IF ~open THEN [success |-> FALSE, error |-> Unavailable(svc), data |-> << >>]
  ELSE LET data == getValues(sheet)
       IN  IF Len(data) <= 1 THEN [success |-> TRUE, error |-> "", data |-> << >>]
           ELSE [success |-> TRUE, error |-> "", data |-> collect(svc.columns, data, 2)]

getById(svc, open, sheet, id) ==
  IF ~open THEN [success |-> FALSE, error |-> Unavailable(svc), data |-> NULL]
  ELSE LET hits == {i \in Matches(sheet, id) :
                        rowToEntity(svc.columns, getValues(sheet)[i]) # NULL}
       IN  IF hits = {}
           THEN [success |-> FALSE, error |-> NotFound(svc, id), data |-> NULL]
           ELSE [success |-> TRUE, error |-> "",
                 data |-> rowToEntity(svc.columns, getValues(sheet)[Min(hits)])]

\* newId is the value Utilities.getUuid() returns
\* the create that appends without looking whether the sheet was found
create_unchecked(svc, open, sheet, newId, entity) ==
  LET fullEntity == [k \in DOMAIN entity \cup {"id"} |->
                       IF k \in DOMAIN entity THEN entity[k] ELSE newId]
  IN  [success |-> TRUE, error |-> "", data |-> fullEntity,
       sheet |-> Append(sheet, entityToRow(svc.columns, fullEntity))]

create(svc, open, sheet, newId, entity) ==
  IF ~open
  THEN [success |-> FALSE, error |-> Unavailable(svc), data |-> NULL, sheet |-> sheet]
  ELSE LET fullEntity == [k \in DOMAIN entity \cup {"id"} |->
                            IF k \in DOMAIN entity THEN entity[k] ELSE newId]
       IN  [success |-> TRUE, error |-> "", data |-> fullEntity,
            sheet |-> Append(sheet, entityToRow(svc.columns, fullEntity))]

\* the update that writes the given fields and leaves the other cells empty
update_blank(svc, open, sheet, id, updates) ==
  IF ~open
  THEN [success |-> FALSE, error |-> Unavailable(svc), data |-> NULL, sheet |-> sheet]
  ELSE IF Matches(sheet, id) = {}
  THEN [success |-> FALSE, error |-> NotFound(svc, id), data |-> NULL, sheet |-> sheet]
  ELSE LET i == Min(Matches(sheet, id))
           updatedEntity == [k \in DOMAIN updates \cup {"id"} |->
                               IF k = "id" THEN id ELSE updates[k]]
       IN  [success |-> TRUE, error |-> "", data |-> updatedEntity,
            sheet |-> [sheet EXCEPT ![i] = entityToRow(svc.columns, updatedEntity)]]

update(svc, open, sheet, id, updates) ==
  IF ~open
  THEN [success |-> FALSE, error |-> Unavailable(svc), data |-> NULL, sheet |-> sheet]
  ELSE IF Matches(sheet, id) = {}
  THEN [success |-> FALSE, error |-> NotFound(svc, id), data |-> NULL, sheet |-> sheet]
  ELSE LET i == Min(Matches(sheet, id))
           existingEntity == rowToEntity(svc.columns, getValues(sheet)[i])
       IN  IF existingEntity = NULL
           THEN [success |-> FALSE, error |-> "Failed to parse existing entity",
                 data |-> NULL, sheet |-> sheet]
           ELSE LET updatedEntity ==
                      [k \in DOMAIN existingEntity \cup DOMAIN updates \cup {"id"} |->
                         IF k = "id" THEN id
                         ELSE IF k \in DOMAIN updates THEN updates[k]
                         ELSE existingEntity[k]]
                    row == entityToRow(svc.columns, updatedEntity)
                    written == [j \in 1..Len(sheet[i]) |->
                                  IF j <= Len(row) THEN row[j] ELSE sheet[i][j]]
                IN  [success |-> TRUE, error |-> "", data |-> updatedEntity,
                     sheet |-> [sheet EXCEPT ![i] = written]]

\* the delete that removes the last of the rows under the id
delete_last(svc, open, sheet, id) ==
  IF ~open THEN [success |-> FALSE, error |-> Unavailable(svc), sheet |-> sheet]
  ELSE IF Matches(sheet, id) = {}
  THEN [success |-> FALSE, error |-> NotFound(svc, id), sheet |-> sheet]
  ELSE LET hits == Matches(sheet, id)
           i == CHOOSE x \in hits : \A y \in hits : y <= x
       IN  [success |-> TRUE, error |-> "",
            sheet |-> SubSeq(sheet, 1, i - 1) \o SubSeq(sheet, i + 1, Len(sheet))]

delete(svc, open, sheet, id) ==
  IF ~open THEN [success |-> FALSE, error |-> Unavailable(svc), sheet |-> sheet]
  ELSE IF Matches(sheet, id) = {}
  THEN [success |-> FALSE, error |-> NotFound(svc, id), sheet |-> sheet]
  ELSE LET i == Min(Matches(sheet, id))
       IN  [success |-> TRUE, error |-> "",
            sheet |-> SubSeq(sheet, 1, i - 1) \o SubSeq(sheet, i + 1, Len(sheet))]

\* whether the first row read holds the expected names, cell by cell
\* the comparison that never finds the names
headersMatch_never(columns, currentHeaders) == FALSE

headersMatch(columns, currentHeaders) ==
  \A i \in 1..Len(columns) : i <= Len(currentHeaders) /\ currentHeaders[i] = columns[i]

\* the header check that writes the names over the first row
ensureHeaders_overwrite(svc, open, sheet) ==
  IF ~open THEN [success |-> FALSE, error |-> Unavailable(svc), sheet |-> sheet]
  ELSE IF Len(sheet) = 0
  THEN [success |-> TRUE, error |-> "", sheet |-> <<svc.columns>>]
  ELSE [success |-> TRUE, error |-> "", sheet |-> [sheet EXCEPT ![1] = svc.columns]]

ensureHeaders(svc, open, sheet) ==
  IF ~open THEN [success |-> FALSE, error |-> Unavailable(svc), sheet |-> sheet]
  ELSE LET data == getValues(sheet)
       IN  IF Len(data) = 0
           THEN [success |-> TRUE, error |-> "", sheet |-> Append(sheet, svc.columns)]
           ELSE IF ~headersMatch(svc.columns, data[1])
           THEN [success |-> TRUE, error |-> "", sheet |-> <<svc.columns>> \o sheet]
           ELSE [success |-> TRUE, error |-> "", sheet |-> sheet]

---------------------------------------------------------------------------
(* Entity services: BorrowerService and MediaService *)

\* the standing check that takes every member that is not inactive for active
isInGoodStanding_notInactive(open, sheet, id) ==
  LET result == getById(BorrowerSvc, open, sheet, id)
  IN  IF ~result.success \/ result.data = NULL
      THEN [success |-> FALSE, error |-> result.error, data |-> FALSE]
      ELSE [success |-> TRUE, error |-> "", data |-> result.data.status # "inactive"]

isInGoodStanding(open, sheet, id) ==
  LET result == getById(BorrowerSvc, open, sheet, id)
  IN  IF ~result.success \/ result.data = NULL
      THEN [success |-> FALSE, error |-> result.error, data |-> FALSE]
      ELSE [success |-> TRUE, error |-> "", data |-> result.data.status = "active"]

isAvailable(open, sheet, id) ==
  LET result == getById(MediaSvc, open, sheet, id)
  IN  IF ~result.success \/ result.data = NULL
      THEN [success |-> FALSE, error |-> result.error, data |-> FALSE]
      ELSE [success |-> TRUE, error |-> "", data |-> result.data.status = "available"]

updateStatus(open, sheet, id, status) ==
  update(MediaSvc, open, sheet, id, [status |-> status])

\* the marking that writes the wrong status
markAsOnLoan_available(open, sheet, id) == updateStatus(open, sheet, id, "available")

markAsOnLoan(open, sheet, id) == updateStatus(open, sheet, id, "on-loan")

\* the marking that makes available only an item that is on loan
markAsAvailable_fromOnLoan(open, sheet, id) ==
  LET item == getById(MediaSvc, open, sheet, id)
  IN  IF item.success /\ item.data.status # "on-loan"
      THEN [success |-> TRUE, error |-> "", data |-> item.data, sheet |-> sheet]
      ELSE updateStatus(open, sheet, id, "available")

\* the marking of a returned item that leaves it on loan
markAsAvailable_onLoan(open, sheet, id) == updateStatus(open, sheet, id, "on-loan")

markAsAvailable(open, sheet, id) == updateStatus(open, sheet, id, "available")

---------------------------------------------------------------------------
(* Loan workflow: LoanService.  Each operation takes the sheets it reads,  *)
(* and f, which tells for every store call it makes whether the master     *)
(* spreadsheet opens at that call; it yields the result and the sheets it  *)
(* leaves behind.                                                          *)

Fail(error, B, M, L) ==
  [success |-> FALSE, error |-> error, id |-> "", count |-> 0, log |-> "", ids |-> 0,
   borrowers |-> B, media |-> M, loans |-> L]

\* the text of the n-th value the id generator returns
\* the generator that returns an id a record already has
generateId_reused(n) == "a"

generateId(n) == "L" \o ToString(n)

\* f.b, f.m, f.c, f.u, f.d: isInGoodStanding, isAvailable, create, markAsOnLoan, delete
\* the checkout that looks at the item before the member
checkout_itemFirst(B, M, L, newId, t, zone, f, borrowerId, mediaId, loanDays) ==
  LET borrowerCheck == isInGoodStanding(f.b, B, borrowerId)
      mediaCheck == isAvailable(f.m, M, mediaId)
      dueDate == addDays(t, loanDays)
      checkoutDate == formatDate(t, zone)
      dueDateStr == formatDate(dueDate, zone)
      loanResult == create(LoanSvc, f.c, L, newId,
                           [borrowerId |-> borrowerId, mediaId |-> mediaId,
                            checkoutDate |-> checkoutDate, dueDate |-> dueDateStr,
                            returnDate |-> "", status |-> "active"])
      mediaUpdate == markAsOnLoan(f.u, M, mediaId)
      rollback == delete(LoanSvc, f.d, loanResult.sheet, loanResult.data.id)
  IN  IF ~mediaCheck.success THEN Fail(mediaCheck.error, B, M, L)
      ELSE IF ~mediaCheck.data
           THEN Fail("Media item is not available for checkout", B, M, L)
      ELSE IF ~borrowerCheck.success THEN Fail(borrowerCheck.error, B, M, L)
      ELSE IF ~borrowerCheck.data THEN Fail("Borrower is not in good standing", B, M, L)
      ELSE IF ~loanResult.success THEN Fail(loanResult.error, B, M, L)
      ELSE IF ~mediaUpdate.success
           THEN [Fail("Failed to update media status: " \o mediaUpdate.error,
                      B, mediaUpdate.sheet, rollback.sheet) EXCEPT !.ids = 1]
      ELSE [success |-> TRUE, error |-> "", id |-> loanResult.data.id, count |-> 0,
            log |-> "", ids |-> 1, borrowers |-> B, media |-> mediaUpdate.sheet,
            loans |-> loanResult.sheet]

checkout(B, M, L, newId, t, zone, f, borrowerId, mediaId, loanDays) ==
  LET borrowerCheck == isInGoodStanding(f.b, B, borrowerId)
      mediaCheck == isAvailable(f.m, M, mediaId)
      dueDate == addDays(t, loanDays)
      checkoutDate == formatDate(t, zone)
      dueDateStr == formatDate(dueDate, zone)
      loanResult == create(LoanSvc, f.c, L, newId,
                           [borrowerId |-> borrowerId, mediaId |-> mediaId,
                            checkoutDate |-> checkoutDate, dueDate |-> dueDateStr,
                            returnDate |-> "", status |-> "active"])
      mediaUpdate == markAsOnLoan(f.u, M, mediaId)
      rollback == delete(LoanSvc, f.d, loanResult.sheet, loanResult.data.id)
  IN  IF ~borrowerCheck.success THEN Fail(borrowerCheck.error, B, M, L)
      ELSE IF ~borrowerCheck.data THEN Fail("Borrower is not in good standing", B, M, L)
      ELSE IF ~mediaCheck.success THEN Fail(mediaCheck.error, B, M, L)
      ELSE IF ~mediaCheck.data
           THEN Fail("Media item is not available for checkout", B, M, L)
      ELSE IF ~loanResult.success THEN Fail(loanResult.error, B, M, L)
      ELSE IF ~mediaUpdate.success
           THEN [Fail("Failed to update media status: " \o mediaUpdate.error,
                      B, mediaUpdate.sheet, rollback.sheet) EXCEPT !.ids = 1]
      ELSE [success |-> TRUE, error |-> "", id |-> loanResult.data.id, count |-> 0,
            log |-> "", ids |-> 1, borrowers |-> B, media |-> mediaUpdate.sheet,
            loans |-> loanResult.sheet]

\* the test that takes lost loans, and not returned ones, for closed
alreadyReturned_lost(loan) == loan.status = "lost"

alreadyReturned(loan) == loan.status = "returned"

\* f.g, f.w, f.u: getById, the update of the loan, markAsAvailable
processReturn(B, M, L, t, zone, f, loanId) ==
  LET loanResult == getById(LoanSvc, f.g, L, loanId)
      loan == loanResult.data
      today == formatDate(t, zone)
      updateResult == update(LoanSvc, f.w, L, loanId,
                             [returnDate |-> today, status |-> "returned"])
      mediaUpdate == markAsAvailable(f.u, M, loan.mediaId)
  IN  IF ~loanResult.success \/ loan = NULL
      THEN Fail(IF loanResult.error # "" THEN loanResult.error ELSE "Loan not found",
                B, M, L)
      ELSE IF alreadyReturned(loan)
           THEN Fail("This loan has already been returned", B, M, L)
      ELSE IF ~updateResult.success THEN Fail(updateResult.error, B, M, L)
      ELSE [success |-> TRUE, error |-> "", id |-> loanId, count |-> 0, ids |-> 0,
            log |-> IF mediaUpdate.success THEN ""
                    ELSE "Warning: Failed to update media status: " \o mediaUpdate.error,
            borrowers |-> B, media |-> mediaUpdate.sheet, loans |-> updateResult.sheet]

\* the test that lets every loan but a returned one be extended
canExtend_notReturned(loan) == loan.status # "returned"

canExtend(loan) == loan.status = "active"

\* f.g, f.w: getById, the update of the loan
extendLoan(B, M, L, zone, f, loanId, additionalDays) ==
  LET loanResult == getById(LoanSvc, f.g, L, loanId)
      loan == loanResult.data
      currentDue == addDays(newDate(loan.dueDate), additionalDays)
      newDueDate == formatDate(currentDue, zone)
      updateResult == update(LoanSvc, f.w, L, loanId, [dueDate |-> newDueDate])
  IN  IF ~loanResult.success \/ loan = NULL
      THEN Fail(IF loanResult.error # "" THEN loanResult.error ELSE "Loan not found",
                B, M, L)
      ELSE IF ~canExtend(loan) THEN Fail("Can only extend active loans", B, M, L)
      ELSE IF ~updateResult.success THEN Fail(updateResult.error, B, M, L)
      ELSE [success |-> TRUE, error |-> "", id |-> loanId, count |-> 0, log |-> "",
            ids |-> 0, due |-> updateResult.data.dueDate,
            borrowers |-> B, media |-> M, loans |-> updateResult.sheet]

\* the test that looks at the due date only
isDue_anyStatus(loan, today) ==
  /\ newDate(loan.dueDate) # NaN
  /\ newDate(loan.dueDate) < today

\* the loan is active and its due date lies before the start of today
isDue(loan, today) ==
  /\ loan.status = "active"
  /\ newDate(loan.dueDate) # NaN
  /\ newDate(loan.dueDate) < today

RECURSIVE overdueScan(_, _, _, _, _)
\* the loop over the loans read: k is the position in data, acc the sheet and the count so far;
\* down is the set of positions in data at which the update finds the spreadsheet closed
overdueScan(data, k, today, down, acc) ==
  IF k > Len(data) THEN acc
  ELSE IF isDue(data[k], today)
       THEN LET updateResult == update(LoanSvc, k \notin down, acc.sheet, data[k].id,
                                       [status |-> "overdue"])
            IN  overdueScan(data, k + 1, today, down,
                            [sheet |-> updateResult.sheet,
                             count |-> IF updateResult.success THEN acc.count + 1
                                       ELSE acc.count])
       ELSE overdueScan(data, k + 1, today, down, acc)

\* f.g: getAll; f.down: the positions whose update finds the spreadsheet closed
\* the scan that counts the loans it tried to write
updateOverdueStatuses_countTried(B, M, L, t, zone, f) ==
  LET result == getAll(LoanSvc, f.g, L)
      today == startOfDay(t, zone)
      done == overdueScan(result.data, 1, today, f.down, [sheet |-> L, count |-> 0])
      tried == overdueScan(result.data, 1, today, {}, [sheet |-> L, count |-> 0])
  IN  IF ~result.success THEN Fail(result.error, B, M, L)
      ELSE [success |-> TRUE, error |-> "", id |-> "", count |-> tried.count, log |-> "",
            ids |-> 0, borrowers |-> B, media |-> M, loans |-> done.sheet]

updateOverdueStatuses(B, M, L, t, zone, f) ==
  LET result == getAll(LoanSvc, f.g, L)
      today == startOfDay(t, zone)
      done == overdueScan(result.data, 1, today, f.down, [sheet |-> L, count |-> 0])
  IN  IF ~result.success THEN Fail(result.error, B, M, L)
      ELSE [success |-> TRUE, error |-> "", id |-> "", count |-> done.count, log |-> "",
            ids |-> 0, borrowers |-> B, media |-> M, loans |-> done.sheet]

---------------------------------------------------------------------------
(* Resource locator: the spreadsheets of the Drive and the addresses kept  *)
(* in the script properties.  A file is a record of its id, its name, the  *)
(* time of its last update, whether it is in the trash and whether it has  *)
(* been deleted for good; a name is the sequence of its parts, so that a   *)
(* name starts with a prefix when its first part is the prefix.            *)

sheetNames == <<"Borrowers", "Media", "Loans">>

Kinds == {sheetNames[i] : i \in 1..Len(sheetNames)}

SHEET_TO_MASTER_PREFIX == [k \in Kinds |-> k]

PROPERTY_KEYS ==
  [BORROWERS_SPREADSHEET_ID |-> "BORROWERS_SPREADSHEET_ID",
   MEDIA_SPREADSHEET_ID |-> "MEDIA_SPREADSHEET_ID",
   LOANS_SPREADSHEET_ID |-> "LOANS_SPREADSHEET_ID",
   LAST_DISCOVERY_DATE |-> "LAST_DISCOVERY_DATE"]

PropertyKeys == {PROPERTY_KEYS[n] : n \in DOMAIN PROPERTY_KEYS}

getPropertyKeyForSheet(sheetName) ==
  CASE sheetName = "Borrowers" -> PROPERTY_KEYS.BORROWERS_SPREADSHEET_ID
    [] sheetName = "Media" -> PROPERTY_KEYS.MEDIA_SPREADSHEET_ID
    [] sheetName = "Loans" -> PROPERTY_KEYS.LOANS_SPREADSHEET_ID
    [] OTHER -> ""

\* the script properties with no key set; "" stands for the null getProperty returns,
\* which the callers test with ! as they would test ""
NoProps == [key \in PropertyKeys |-> ""]

FileId(k, n) == k \o "#" \o ToString(n)

\* the n-th spreadsheet made for the kind k, named by the prefix of the kind
MasterFile(k, n) ==
  [id |-> FileId(k, n), name |-> <<SHEET_TO_MASTER_PREFIX[k]>>, updated |-> n,
   trashed |-> FALSE, deleted |-> FALSE]

\* the test that takes a name that holds the prefix anywhere
StartsWith_contains(name, prefix) == \E i \in 1..Len(name) : name[i] = prefix

StartsWith(name, prefix) == Len(name) >= 1 /\ name[1] = prefix

\* the part of a name, or the address, in lower case
toLowerCase(part) ==
  CASE part = "Borrowers" -> "borrowers"
    [] part = "Ed@Lib.org" -> "ed@lib.org"
    [] part = "Media" -> "media"
    [] part = "Loans" -> "loans"
    [] part = "Old" -> "old"
    [] OTHER -> part

\* DriveApp.searchFiles with the query title contains prefix and trashed = false: the
\* spreadsheets out of the trash with a part of the name that is the prefix, in
\* whatever case
searchFiles(files, prefix) ==
  {file \in files :
     /\ ~file.deleted
     /\ ~file.trashed
     /\ \E i \in 1..Len(file.name) : toLowerCase(file.name[i]) = toLowerCase(prefix)}

\* the files the search can return for the prefix: the loop keeps the first file it
\* meets among those of the latest update, and the order of the search is Drive's
\* the search that keeps the first file it meets, whatever its last update
findNewestSpreadsheetByPrefix_first(files, prefix) ==
  LET matches == {file \in searchFiles(files, prefix) : StartsWith(file.name, prefix)}
  IN  IF matches = {} THEN {NULL} ELSE matches

findNewestSpreadsheetByPrefix(files, prefix) ==
  LET matches == {file \in searchFiles(files, prefix) : StartsWith(file.name, prefix)}
  IN  IF matches = {} THEN {NULL}
      ELSE {file \in matches : \A other \in matches : other.updated <= file.updated}

\* the text toISOString gives for the instant t
toISOString(t) == formatDateString(t \div 24) \o "T" \o Pad2(t % 24) \o ":00:00.000Z"

\* the messages of the kinds of the list that were not found, joined by "; "
RECURSIVE joinErrors(_, _, _)
joinErrors(found, i, sep) ==
  IF i > Len(sheetNames) THEN ""
  ELSE IF found[sheetNames[i]] # NULL THEN joinErrors(found, i + 1, sep)
  ELSE sep \o "Could not find spreadsheet starting with \""
           \o SHEET_TO_MASTER_PREFIX[sheetNames[i]] \o "\"" \o joinErrors(found, i + 1, "; ")

\* the discovery that forgets the address of a kind it does not find
discoverAllMasterSpreadsheets_clearing(P, found, t) ==
  LET results == {k \in Kinds : found[k] # NULL}
      errors == joinErrors(found, 1, "")
      stored == [key \in PropertyKeys |->
                   IF \E k \in results : getPropertyKeyForSheet(k) = key
                   THEN found[CHOOSE k \in results : getPropertyKeyForSheet(k) = key].id
                   ELSE IF key = PROPERTY_KEYS.LAST_DISCOVERY_DATE THEN toISOString(t)
                   ELSE ""]
  IN  IF results = {}
      THEN [success |-> FALSE, data |-> results, props |-> P,
            error |-> "No master spreadsheets found. Please create spreadsheets named "
                      \o "\"Borrowers\", \"Media\", and \"Loans\" in your Drive. Errors: "
                      \o errors]
      ELSE [success |-> TRUE, data |-> results, props |-> stored,
            error |-> IF errors # "" THEN "Partial discovery. Missing: " \o errors ELSE ""]

\* found[k] is what the search for the kind k returned
\* the discovery that fails unless every kind is found
discoverAllMasterSpreadsheets_atomic(P, found, t) ==
  IF \A k \in Kinds : found[k] # NULL
  THEN [success |-> TRUE, data |-> Kinds, error |-> "",
        props |-> [key \in PropertyKeys |->
                     IF key = PROPERTY_KEYS.LAST_DISCOVERY_DATE THEN toISOString(t)
                     ELSE found[CHOOSE k \in Kinds : getPropertyKeyForSheet(k) = key].id]]
  ELSE [success |-> FALSE, data |-> {}, props |-> P,
        error |-> "No master spreadsheets found. Please create spreadsheets named "
                  \o "\"Borrowers\", \"Media\", and \"Loans\" in your Drive. Errors: "
                  \o joinErrors(found, 1, "")]

discoverAllMasterSpreadsheets(P, found, t) ==
  LET results == {k \in Kinds : found[k] # NULL}
      errors == joinErrors(found, 1, "")
      stored == [key \in PropertyKeys |->
                   IF \E k \in results : getPropertyKeyForSheet(k) = key
                   THEN found[CHOOSE k \in results : getPropertyKeyForSheet(k) = key].id
                   ELSE IF key = PROPERTY_KEYS.LAST_DISCOVERY_DATE THEN toISOString(t)
                   ELSE P[key]]
  IN  IF results = {}
      THEN [success |-> FALSE, data |-> results, props |-> P,
            error |-> "No master spreadsheets found. Please create spreadsheets named "
                      \o "\"Borrowers\", \"Media\", and \"Loans\" in your Drive. Errors: "
                      \o errors]
      ELSE IF errors # ""
      THEN [success |-> TRUE, data |-> results, props |-> stored,
            error |-> "Partial discovery. Missing: " \o errors]
      ELSE [success |-> TRUE, data |-> results, props |-> stored, error |-> ""]

getMasterSpreadsheetId(P, sheetName) ==
  IF getPropertyKeyForSheet(sheetName) = "" THEN ""
  ELSE P[getPropertyKeyForSheet(sheetName)]

\* whether the master spreadsheet of the kind is opened: an id is stored and
\* openById finds the file
\* the opening that looks for the newest spreadsheet of the kind when the stored id fails
openMasterSpreadsheet_searches(P, files, sheetName) ==
  LET spreadsheetId == getMasterSpreadsheetId(P, sheetName)
  IN  /\ spreadsheetId # ""
      /\ \/ \E file \in files : file.id = spreadsheetId /\ ~file.deleted
         \/ findNewestSpreadsheetByPrefix(files, SHEET_TO_MASTER_PREFIX[sheetName]) # {NULL}

openMasterSpreadsheet(P, files, sheetName) ==
  LET spreadsheetId == getMasterSpreadsheetId(P, sheetName)
  IN  spreadsheetId # "" /\ \E file \in files : file.id = spreadsheetId /\ ~file.deleted

clearMasterConfig(P) == NoProps

---------------------------------------------------------------------------
(* The state machine of the loan workflow: the three sheets, the id        *)
(* generator, the clock and the script time zone.  The calls run one at a  *)
(* time; last is the call made last and what it returned.                  *)

\* the instant 2024-01-15T12:00Z
StartClock == 24 * 14 + 12

\* script time zones: six hours behind UTC and six hours ahead of it
TimeZones == {-6, 6}

MemberArgs == {"m1", "m2", "mX"}

ItemArgs == {"i1", "i2", "iX"}

LoanArgs == {generateId(n) : n \in 0..MaxIds}

LoanDays == {DEFAULT_LOAN_DAYS}

ExtendDays == {DEFAULT_LOAN_DAYS}

\* which store calls of a checkout find their spreadsheet closed: none, or the first
\* one that does, and for a failed item write also whether the delete after it does
CheckoutFaults ==
  {f \in [b : BOOLEAN, m : BOOLEAN, c : BOOLEAN, u : BOOLEAN, d : BOOLEAN] :
     /\ ~f.b => (f.m /\ f.c /\ f.u /\ f.d)
     /\ ~f.m => (f.c /\ f.u /\ f.d)
     /\ ~f.c => (f.u /\ f.d)
     /\ f.u => f.d}

NoCheckoutFault == [b |-> TRUE, m |-> TRUE, c |-> TRUE, u |-> TRUE, d |-> TRUE]

OverdueFaults ==
  {f \in [g : BOOLEAN, down : SUBSET (1..(MaxIds + 2))] : ~f.g => f.down = {}}

Member(id, status) == <<id, "name " \o id, id \o "@example.org", "", status, "2024-01-01", "">>

Item(id, status) == <<id, "title " \o id, "author", "book", "", status, "">>

\* a loan of item i1 taken out on 2024-01-01 for the default period, before the run starts
LegacyLoan(status) == <<generateId(0), "m1", "i1", "2024-01-01", "2024-01-15", "", status>>

Call(op, args, r) ==
  [op |-> op, args |-> args, success |-> r.success, id |-> r.id, count |-> r.count,
   log |-> r.log]

Init ==
  /\ borrowers = <<BORROWER_COLUMNS, Member("m1", "active"), Member("m2", "suspended")>>
  /\ \/ /\ media = <<MEDIA_COLUMNS, Item("i1", "on-loan"), Item("i2", "damaged")>>
        /\ loans = <<LOAN_COLUMNS, LegacyLoan("active")>>
     \/ /\ media = <<MEDIA_COLUMNS, Item("i1", "lost"), Item("i2", "damaged")>>
        /\ loans = <<LOAN_COLUMNS, LegacyLoan("lost")>>
  /\ nextId = 1
  /\ now = StartClock
  /\ tz \in TimeZones
  /\ last = Call("init", << >>, Fail("", borrowers, media, loans))
  /\ drive = {MasterFile(k, 1) : k \in Kinds}
  /\ props = [NoProps EXCEPT ![getPropertyKeyForSheet("Borrowers")] = FileId("Borrowers", 1),
                             ![getPropertyKeyForSheet("Media")] = FileId("Media", 1),
                             ![getPropertyKeyForSheet("Loans")] = FileId("Loans", 1)]

Tick ==
  /\ now < StartClock + 24 * MaxTicks
  /\ now' = now + 24
  /\ last' = Call("tick", << >>, Fail("", borrowers, media, loans))
  /\ UNCHANGED <<borrowers, media, loans, nextId, tz, props, drive>>

CheckoutCall(b, m, d, f) ==
  LET r == checkout(borrowers, media, loans, generateId(nextId), now, tz, f, b, m, d)
  IN  \* a closed spreadsheet at a call the checkout does not reach is the same input
      \* as no closed spreadsheet
      /\ f # NoCheckoutFault =>
           r # checkout(borrowers, media, loans, generateId(nextId), now, tz, NoCheckoutFault, b, m, d)
      /\ borrowers' = r.borrowers
      /\ media' = r.media
      /\ loans' = r.loans
      /\ nextId' = nextId + r.ids
      /\ last' = Call("checkout", <<b, m, d>>, r)
      /\ UNCHANGED <<now, tz, props, drive>>

\* f tells which store calls of the return find their spreadsheet closed: none, or
\* the first one that does
ProcessReturn ==
  \E id \in LoanArgs,
     f \in {f \in [g : BOOLEAN, w : BOOLEAN, u : BOOLEAN] :
              (~f.g => (f.w /\ f.u)) /\ (~f.w => f.u)} :
    LET r == processReturn(borrowers, media, loans, now, tz, f, id)
    IN  /\ borrowers' = r.borrowers
        /\ media' = r.media
        /\ loans' = r.loans
        /\ last' = Call("processReturn", <<id>>, r)
        /\ UNCHANGED <<nextId, now, tz, props, drive>>

ExtendLoan ==
  \E id \in LoanArgs, a \in ExtendDays,
     f \in {f \in [g : BOOLEAN, w : BOOLEAN] : ~f.g => f.w} :
    LET r == extendLoan(borrowers, media, loans, tz, f, id, a)
    IN  /\ r.success => newDate(r.due) <= 24 * MaxDay
        /\ borrowers' = r.borrowers
        /\ media' = r.media
        /\ loans' = r.loans
        /\ last' = Call("extendLoan", <<id, a>>, r)
        /\ UNCHANGED <<nextId, now, tz, props, drive>>

UpdateOverdueStatusesCall(f) ==
  LET r == updateOverdueStatuses(borrowers, media, loans, now, tz, f)
  IN  /\ f.down \subseteq 1..(Len(loans) - 1)
      /\ borrowers' = r.borrowers
      /\ media' = r.media
      /\ loans' = r.loans
      /\ last' = Call("updateOverdueStatuses", << >>, r)
      /\ UNCHANGED <<nextId, now, tz, props, drive>>

UpdateOverdueStatuses == \E f \in OverdueFaults : UpdateOverdueStatusesCall(f)

Next ==
  \/ Tick
  \/ /\ nextId <= MaxIds
     /\ \E b \in MemberArgs, m \in ItemArgs, d \in LoanDays, f \in CheckoutFaults :
          CheckoutCall(b, m, d, f)
  \/ ProcessReturn
  \/ ExtendLoan
  \/ UpdateOverdueStatuses

Spec == Init /\ [][Next]_vars

\* the same machine with room for one checkout more
NextAgain ==
  \/ Next
  \/ /\ nextId = MaxIds + 1
     /\ \E b \in MemberArgs, m \in ItemArgs, d \in LoanDays, f \in CheckoutFaults :
          CheckoutCall(b, m, d, f)

SpecAgain == Init /\ [][NextAgain]_vars

---------------------------------------------------------------------------
(* What the sheets hold, read cell by cell *)

\* the position of the row of the record id
RowOf(sheet, id) == CHOOSE i \in 2..Len(sheet) : sheet[i][1] = id

HasRow(sheet, id) == \E i \in 2..Len(sheet) : sheet[i][1] = id

MemberIsActive(b) == HasRow(borrowers, b) /\ borrowers[RowOf(borrowers, b)][5] = "active"

ItemIsAvailable(m) == HasRow(media, m) /\ media[RowOf(media, m)][6] = "available"

\* the sheet after only the cell in column col of the record id has been set to v
WithCell(sheet, id, col, v) == [sheet EXCEPT ![RowOf(sheet, id)][col] = v]

\* the day number of the date text s
DayOf(s) == CHOOSE d \in Days : DateTable[d] = s

\* the day number of today in the script time zone
Today == (now + tz) \div 24

---------------------------------------------------------------------------
(* Properties of the loan workflow *)

\* C1: a checkout for a member that does not exist or is not active, or for an item
\* that does not exist or is not available, returns failure and leaves the loans, the
\* items and the members as they were.
C1_CheckoutRejectedWritesNothing ==
  [][(last'.op = "checkout"
      /\ ~(MemberIsActive(last'.args[1]) /\ ItemIsAvailable(last'.args[2])))
     => (~last'.success /\ UNCHANGED <<borrowers, media, loans>>)]_vars

\* a checkout of the available item i1 for the suspended member m2 was rejected
C1_Witness ==
  /\ last.op = "checkout"
  /\ ~last.success
  /\ last.args[1] = "m2"
  /\ ItemIsAvailable(last.args[2])

\* C2: a successful checkout appends one loan row (active, no return date, the given
\* member and item), sets the status of that item to on-loan, which getById of the
\* item then shows, and changes no other loan, item or member row.
C2_CheckoutAppendsLoanAndMarksItem ==
  [][(last'.op = "checkout" /\ last'.success)
     => LET b == last'.args[1]
            m == last'.args[2]
            row == loans'[Len(loans')]
        IN  /\ Len(loans') = Len(loans) + 1
            /\ SubSeq(loans', 1, Len(loans)) = loans
            /\ row[1] = last'.id /\ ~HasRow(loans, row[1])
            /\ row[2] = b /\ row[3] = m /\ row[6] = "" /\ row[7] = "active"
            /\ media' = WithCell(media, m, 6, "on-loan")
            /\ getById(MediaSvc, TRUE, media', m).data.status = "on-loan"
            /\ borrowers' = borrowers]_vars

C2_Witness ==
  /\ last.op = "checkout"
  /\ last.success
  /\ HasRow(loans, last.id)
  /\ media[RowOf(media, last.args[2])][6] = "on-loan"

\* C3: a checkout that fails at the write of the item status, after it has created the
\* loan row and so has drawn an id, leaves the loans sheet as it was before the call, and
\* the item as it was.
C3_FailedItemWriteRemovesLoan ==
  [][(last'.op = "checkout" /\ ~last'.success /\ nextId' # nextId)
     => (loans' = loans /\ media' = media)]_vars

\* the loans of item m that are active
ActiveLoansOf(m) == {i \in 2..Len(loans) : loans[i][3] = m /\ loans[i][7] = "active"}

\* C4: whatever calls have run, one at a time, no item has two active loans.
C4_AtMostOneActiveLoanPerItem ==
  \A m \in ItemArgs : Cardinality(ActiveLoansOf(m)) <= 1

\* the status of the loan id before the call
StatusOf(id) == loans[RowOf(loans, id)][7]

\* C5: processReturn on a loan that is already returned, or on an id that no loan has,
\* fails and changes no loan row and no item row.
C5_ReturnOfReturnedOrUnknownFails ==
  [][(last'.op = "processReturn"
      /\ (HasRow(loans, last'.args[1]) => StatusOf(last'.args[1]) = "returned"))
     => (~last'.success /\ UNCHANGED <<borrowers, media, loans>>)]_vars

C5_Witness ==
  /\ last.op = "processReturn"
  /\ ~last.success
  /\ HasRow(loans, last.args[1])
  /\ StatusOf(last.args[1]) = "returned"
  /\ loans[RowOf(loans, last.args[1])][6] # DateTable[Today]

\* C6: processReturn on a loan that is not yet returned either fails and writes nothing,
\* or succeeds and the loan is returned with today as its return date; then either the
\* item is available, or the write of the item has failed, which is logged and leaves
\* the item and the returned loan as they are.  With the Loans spreadsheet open the
\* call succeeds whether or not the write of the item does.
C6_ReturnKeepsLoanReturnedWhenItemWriteFails ==
  [][(last'.op = "processReturn" /\ HasRow(loans, last'.args[1])
      /\ StatusOf(last'.args[1]) # "returned")
     => LET id == last'.args[1]
            item == loans[RowOf(loans, id)][3]
        IN  /\ \A u \in BOOLEAN :
                 processReturn(borrowers, media, loans, now, tz,
                               [g |-> TRUE, w |-> TRUE, u |-> u], id).success
            /\ IF last'.success
               THEN /\ loans' = WithCell(WithCell(loans, id, 6, DateTable[Today]),
                                         id, 7, "returned")
                    /\ borrowers' = borrowers
                    /\ \/ /\ last'.log = ""
                          /\ media' = WithCell(media, item, 6, "available")
                       \/ /\ last'.log # ""
                          /\ media' = media
               ELSE UNCHANGED <<borrowers, media, loans>>]_vars

C6_Witness ==
  /\ last.op = "processReturn"
  /\ last.success
  /\ last.log # ""
  /\ loans[RowOf(loans, last.id)][6] = DateTable[Today]
  /\ loans[RowOf(loans, last.id)][7] = "returned"
  /\ ~ItemIsAvailable(loans[RowOf(loans, last.id)][3])

\* C7: no call changes any field of a loan row that has the status returned.
C7_ReturnedIsTerminal ==
  [][\A i \in 2..Len(loans) :
       loans[i][7] = "returned" => (i <= Len(loans') /\ loans'[i] = loans[i])]_vars

C7_Witness ==
  /\ last.op \in {"extendLoan", "updateOverdueStatuses"}
  /\ \E i \in 2..Len(loans) :
       /\ loans[i][7] = "returned"
       /\ DayOf(loans[i][5]) < DayOf(loans[i][6])
       /\ last.op = "extendLoan" => last.args[1] = loans[i][1]

\* C8: no processReturn, extendLoan or updateOverdueStatuses call changes any field of a
\* loan row that has the status lost.
C8_LostIsTerminal ==
  [][(last'.op \in {"processReturn", "extendLoan", "updateOverdueStatuses"})
     => \A i \in 2..Len(loans) :
          loans[i][7] = "lost" => (i <= Len(loans') /\ loans'[i] = loans[i])]_vars

\* C9: extendLoan succeeds only on an active loan; a call that fails changes nothing, and
\* a call that succeeds changes the due date of that loan and nothing else.
C9_ExtendOnlyActiveOnlyDueDate ==
  [][(last'.op = "extendLoan")
     => LET id == last'.args[1]
        IN  IF last'.success
            THEN /\ HasRow(loans, id)
                 /\ StatusOf(id) = "active"
                 /\ loans' = WithCell(loans, id, 5, loans'[RowOf(loans, id)][5])
                 /\ UNCHANGED <<borrowers, media>>
            ELSE UNCHANGED <<borrowers, media, loans>>]_vars

C9_Witness ==
  /\ last.op = "extendLoan"
  /\ last.success
  /\ \E i \in 2..Len(loans) :
       /\ loans[i][1] = last.args[1]
       /\ loans[i][7] = "active"
       /\ DayOf(loans[i][5]) > DayOf(loans[i][4]) + DEFAULT_LOAN_DAYS

\* the rows of the loans that are active and were due before today
PastDue == {i \in 2..Len(loans) : loans[i][7] = "active" /\ DayOf(loans[i][5]) < Today}

\* C10: updateOverdueStatuses changes the active loans that were due before today, and
\* only these, to overdue; it changes nothing else and returns how many loans it changed;
\* when every write goes through it changes all of them.
C10_OverdueExactlyPastDueActive ==
  [][(last'.op = "updateOverdueStatuses" /\ last'.success)
     => LET changed == {i \in 2..Len(loans) : loans'[i] # loans[i]}
            all == updateOverdueStatuses(borrowers, media, loans, now, tz,
                                         [g |-> TRUE, down |-> {}])
        IN  /\ Len(loans') = Len(loans)
            /\ changed \subseteq PastDue
            /\ \A i \in changed : loans'[i] = [loans[i] EXCEPT ![7] = "overdue"]
            /\ last'.count = Cardinality(changed)
            /\ \A i \in PastDue : all.loans[i][7] = "overdue"
            /\ UNCHANGED <<borrowers, media>>]_vars

---------------------------------------------------------------------------
(* The overdue scan over a Loans sheet of two loans of any status and any  *)
(* due date around today.                                                  *)

ScanDueDates == {"2024-01-10", "2024-01-15", "2024-01-20"}

\* the status of the item of a loan of status s
ItemStatusFor(s) ==
  CASE s \in {"active", "overdue"} -> "on-loan"
    [] s = "returned" -> "available"
    [] s = "lost" -> "lost"

ScanLoan(n, item, due, status) ==
  <<generateId(n), "m1", item, "2024-01-01", due, IF status = "returned" THEN due ELSE "", status>>

ScanInit ==
  /\ borrowers = <<BORROWER_COLUMNS, Member("m1", "active"), Member("m2", "suspended")>>
  /\ \E d1 \in ScanDueDates, d2 \in ScanDueDates,
        s1 \in {"active", "returned", "overdue", "lost"},
        s2 \in {"active", "returned", "overdue", "lost"} :
       /\ media = <<MEDIA_COLUMNS, Item("i1", ItemStatusFor(s1)), Item("i2", ItemStatusFor(s2))>>
       /\ loans = <<LOAN_COLUMNS, ScanLoan(0, "i1", d1, s1), ScanLoan(1, "i2", d2, s2)>>
  /\ nextId = 2
  /\ now = StartClock
  /\ tz \in TimeZones
  /\ last = Call("init", << >>, Fail("", borrowers, media, loans))
  /\ drive = {MasterFile(k, 1) : k \in Kinds}
  /\ props = [NoProps EXCEPT ![getPropertyKeyForSheet("Borrowers")] = FileId("Borrowers", 1),
                             ![getPropertyKeyForSheet("Media")] = FileId("Media", 1),
                             ![getPropertyKeyForSheet("Loans")] = FileId("Loans", 1)]

ScanNext ==
  \/ Tick
  \/ UpdateOverdueStatuses

SpecScan == ScanInit /\ [][ScanNext]_vars

\* the rows the scan sets to overdue when every write goes through
ScanWrites ==
  LET all == updateOverdueStatuses(borrowers, media, loans, now, tz, [g |-> TRUE, down |-> {}])
  IN  {i \in 2..Len(loans) : all.loans[i] # loans[i]}

\* C11: when the Loans sheet can be read, updateOverdueStatuses succeeds whichever of its
\* writes fail: the loans whose write fails stay as they are, every other loan the scan
\* writes is set to overdue, also one that comes after a failed write, and the count
\* returned is the number of loans written.
C11_ScanContinuesPastFailedWrite ==
  [][\A f \in OverdueFaults :
       (f.g /\ UpdateOverdueStatusesCall(f))
       => /\ last'.success
          /\ Len(loans') = Len(loans)
          /\ \A i \in 2..Len(loans) :
               loans'[i] = IF i \in ScanWrites /\ (i - 1) \notin f.down
                           THEN [loans[i] EXCEPT ![7] = "overdue"]
                           ELSE loans[i]
          /\ last'.count = Cardinality({i \in ScanWrites : (i - 1) \notin f.down})]_vars

\* the write of the first loan failed, the second loan was set to overdue and counted
C11_Witness ==
  /\ last.op = "updateOverdueStatuses"
  /\ last.success
  /\ last.count = 1
  /\ loans[2][7] = "active" /\ DayOf(loans[2][5]) < Today
  /\ loans[3][7] = "overdue" /\ DayOf(loans[3][5]) < Today

---------------------------------------------------------------------------
(* Due dates *)

\* C12: a successful checkout for d days stores today as the checkout date and today
\* plus d days as the due date, and a successful extendLoan by a days moves the due
\* date of the loan by a days.
C12_DueDatesAreCalendarSums ==
  [][/\ (last'.op = "checkout" /\ last'.success)
        => LET row == loans'[RowOf(loans', last'.id)]
           IN  /\ row[4] = DateTable[Today]
               /\ row[5] = DateTable[Today + last'.args[3]]
     /\ (last'.op = "extendLoan" /\ last'.success)
        => LET i == RowOf(loans, last'.args[1])
           IN  DayOf(loans'[i][5]) = DayOf(loans[i][5]) + last'.args[2]]_vars

\* the machine with the loan periods a caller can pass besides the default
DaysNext ==
  \/ Tick
  \/ /\ nextId <= MaxIds
     /\ \E b \in MemberArgs, m \in ItemArgs, d \in {-1, 0, 1, DEFAULT_LOAN_DAYS},
           f \in CheckoutFaults :
          CheckoutCall(b, m, d, f)
  \/ ProcessReturn
  \/ ExtendLoan
  \/ UpdateOverdueStatuses

SpecDays == Init /\ [][DaysNext]_vars

\* C13: every loan row has its due date after its checkout date.
C13_DueAfterCheckout ==
  \A i \in 2..Len(loans) : DayOf(loans[i][5]) > DayOf(loans[i][4])

---------------------------------------------------------------------------
(* The record store of each kind over the Drive: the calls of the store,   *)
(* discovery, and the owner of the Drive deleting and making spreadsheets. *)
(* The sheet of a kind is the first sheet of the spreadsheet of that kind  *)
(* that is in the Drive; a spreadsheet just made has an empty sheet.       *)

\* number of spreadsheets made in the Drive besides the first one
MaxFiles == 1

SvcOf(k) ==
  CASE k = "Borrowers" -> BorrowerSvc
    [] k = "Media" -> MediaSvc
    [] k = "Loans" -> LoanSvc

TableOf(k) ==
  CASE k = "Borrowers" -> borrowers
    [] k = "Media" -> media
    [] k = "Loans" -> loans

\* a row of the kind that holds v in every cell but the id
StoreRow(svc, id, v) == [i \in 1..Len(svc.columns) |-> IF i = 1 THEN id ELSE v]

StoreIds == {"a", "b"}

\* the fields given to create: all of them, or one of them
FieldInputs(svc) ==
  {[k \in S |-> "new"] : S \in {ColSet(svc.columns) \ {"id"}, {svc.columns[2]}}}

\* the fields given to update: one field, and that field together with an id
Partials(svc) ==
  {[k \in {svc.columns[2]} |-> "upd"],
   [k \in {"id", svc.columns[2]} |-> IF k = "id" THEN "b" ELSE "upd"]}

StoreCall(op, k, r) ==
  [op |-> op, kind |-> k, success |-> r.success, error |-> r.error]

\* the sheets a store starts from: empty, the header alone, a record in the place of
\* the header, and records of which two are under one id
StoreInit ==
  /\ \E k \in Kinds :
       /\ \E t \in {<< >>,
                    <<SvcOf(k).columns>>,
                    <<StoreRow(SvcOf(k), "a", "x")>>,
                    <<SvcOf(k).columns, StoreRow(SvcOf(k), "a", "x"),
                      StoreRow(SvcOf(k), "a", "y"), StoreRow(SvcOf(k), "b", "x")>>} :
            /\ borrowers = IF k = "Borrowers" THEN t ELSE << >>
            /\ media = IF k = "Media" THEN t ELSE << >>
            /\ loans = IF k = "Loans" THEN t ELSE << >>
       /\ drive = {MasterFile(k, 1)}
       /\ props = [NoProps EXCEPT ![getPropertyKeyForSheet(k)] = FileId(k, 1)]
  /\ nextId = 1
  /\ now = StartClock
  /\ tz = Min(TimeZones)
  /\ last = StoreCall("init", "", [success |-> TRUE, error |-> ""])

\* the sheet of the kind k becomes t
SetTable(k, t) ==
  /\ borrowers' = IF k = "Borrowers" THEN t ELSE borrowers
  /\ media' = IF k = "Media" THEN t ELSE media
  /\ loans' = IF k = "Loans" THEN t ELSE loans

GetAllCall(k) ==
  LET r == getAll(SvcOf(k), openMasterSpreadsheet(props, drive, k), TableOf(k))
  IN  /\ last' = StoreCall("getAll", k, r)
      /\ UNCHANGED <<borrowers, media, loans, nextId, now, tz, props, drive>>

GetByIdCall(k, id) ==
  LET r == getById(SvcOf(k), openMasterSpreadsheet(props, drive, k), TableOf(k), id)
  IN  /\ last' = StoreCall("getById", k, r)
      /\ UNCHANGED <<borrowers, media, loans, nextId, now, tz, props, drive>>

CreateCall(k, e) ==
  LET open == openMasterSpreadsheet(props, drive, k)
      r == create(SvcOf(k), open, TableOf(k), generateId(nextId), e)
  IN  /\ nextId <= MaxIds
      /\ SetTable(k, r.sheet)
      /\ nextId' = IF open THEN nextId + 1 ELSE nextId
      /\ last' = StoreCall("create", k, r)
      /\ UNCHANGED <<now, tz, props, drive>>

UpdateCall(k, id, u) ==
  LET r == update(SvcOf(k), openMasterSpreadsheet(props, drive, k), TableOf(k), id, u)
  IN  /\ SetTable(k, r.sheet)
      /\ last' = StoreCall("update", k, r)
      /\ UNCHANGED <<nextId, now, tz, props, drive>>

DeleteCall(k, id) ==
  LET r == delete(SvcOf(k), openMasterSpreadsheet(props, drive, k), TableOf(k), id)
  IN  /\ SetTable(k, r.sheet)
      /\ last' = StoreCall("delete", k, r)
      /\ UNCHANGED <<nextId, now, tz, props, drive>>

EnsureHeadersCall(k) ==
  LET r == ensureHeaders(SvcOf(k), openMasterSpreadsheet(props, drive, k), TableOf(k))
  IN  /\ SetTable(k, r.sheet)
      /\ last' = StoreCall("ensureHeaders", k, r)
      /\ UNCHANGED <<nextId, now, tz, props, drive>>

StoreOp ==
  \E k \in Kinds :
    \/ GetAllCall(k)
    \/ \E id \in StoreIds : GetByIdCall(k, id)
    \/ \E e \in FieldInputs(SvcOf(k)) : CreateCall(k, e)
    \/ \E id \in StoreIds, u \in Partials(SvcOf(k)) : UpdateCall(k, id, u)
    \/ \E id \in StoreIds : DeleteCall(k, id)
    \/ EnsureHeadersCall(k)

\* found is what the three searches of the discovery return over the files
Discover ==
  \E found \in
       {[k \in Kinds |-> CASE k = "Borrowers" -> b [] k = "Media" -> m [] k = "Loans" -> l] :
          b \in findNewestSpreadsheetByPrefix(drive, SHEET_TO_MASTER_PREFIX["Borrowers"]),
          m \in findNewestSpreadsheetByPrefix(drive, SHEET_TO_MASTER_PREFIX["Media"]),
          l \in findNewestSpreadsheetByPrefix(drive, SHEET_TO_MASTER_PREFIX["Loans"])} :
    /\ LET r == discoverAllMasterSpreadsheets(props, found, now)
       IN  /\ props' = r.props
           /\ last' = StoreCall("discoverAllMasterSpreadsheets", "", r)
    /\ UNCHANGED <<borrowers, media, loans, nextId, now, tz, drive>>

ClearConfig ==
  /\ props' = clearMasterConfig(props)
  /\ last' = StoreCall("clearMasterConfig", "", [success |-> TRUE, error |-> ""])
  /\ UNCHANGED <<borrowers, media, loans, nextId, now, tz, drive>>

\* the owner deletes the spreadsheet of the kind k for good, and its sheet with it
FileLost(k) ==
  /\ \E file \in drive :
       /\ ~file.deleted /\ StartsWith(file.name, SHEET_TO_MASTER_PREFIX[k])
       /\ drive' = (drive \ {file}) \cup {[file EXCEPT !.deleted = TRUE]}
  /\ SetTable(k, << >>)
  /\ last' = StoreCall("fileLost", k, [success |-> TRUE, error |-> ""])
  /\ UNCHANGED <<nextId, now, tz, props>>

\* the owner makes a spreadsheet for the kind k, which has none
FileMade(k) ==
  /\ Cardinality(drive) <= MaxFiles
  /\ findNewestSpreadsheetByPrefix(drive, SHEET_TO_MASTER_PREFIX[k]) = {NULL}
  /\ drive' = drive \cup
       {MasterFile(k, 1 + Cardinality({file \in drive :
                                         StartsWith(file.name, SHEET_TO_MASTER_PREFIX[k])}))}
  /\ SetTable(k, << >>)
  /\ last' = StoreCall("fileMade", k, [success |-> TRUE, error |-> ""])
  /\ UNCHANGED <<nextId, now, tz, props>>

SpecStore == StoreInit /\ [][StoreOp]_vars

\* the borrowers have their spreadsheet, with a header and a record, and its id is
\* stored; the other kinds have none yet
DriveInit ==
  /\ borrowers = <<BorrowerSvc.columns, StoreRow(BorrowerSvc, "a", "x")>>
  /\ media = << >>
  /\ loans = << >>
  /\ drive = {MasterFile("Borrowers", 1)}
  /\ props = [NoProps EXCEPT ![getPropertyKeyForSheet("Borrowers")] = FileId("Borrowers", 1)]
  /\ nextId = 1
  /\ now = StartClock
  /\ tz = Min(TimeZones)
  /\ last = StoreCall("init", "", [success |-> TRUE, error |-> ""])

DriveNext ==
  \/ StoreOp
  \/ Discover
  \/ ClearConfig
  \/ \E k \in Kinds : FileLost(k)
  \/ \E k \in Kinds : FileMade(k)

SpecDrive == DriveInit /\ [][DriveNext]_vars

---------------------------------------------------------------------------
(* Claims about the record store and the stored addresses.                 *)

\* the calls of the store, as the record of the last call names them
StoreOps == {"getAll", "getById", "create", "update", "delete", "ensureHeaders"}

\* the id of the spreadsheet of the kind k is stored
Stored(k) == props[getPropertyKeyForSheet(k)] # ""

\* the spreadsheet whose id is stored for the kind k is in the Drive
Openable(k) ==
  \E file \in drive : file.id = props[getPropertyKeyForSheet(k)] /\ ~file.deleted

\* C14: when the id of the spreadsheet of a kind is not stored, or the spreadsheet
\* cannot be opened, each of getAll, getById, create, update, delete and
\* ensureHeaders on that kind returns success = false with the message that tells to
\* run Setup, and writes nothing.
C14_UnavailableFailsAndWritesNothing ==
  [][\A k \in Kinds :
       ((~Stored(k) \/ ~Openable(k)) /\ last'.kind = k /\ last'.op \in StoreOps) =>
         /\ last'.success = FALSE
         /\ last'.error = Unavailable(SvcOf(k))
         /\ UNCHANGED <<borrowers, media, loans, props, drive, nextId>>]_vars

\* an update of a borrower has failed because the stored spreadsheet is gone
C14_Witness ==
  /\ Stored("Borrowers") /\ ~Openable("Borrowers")
  /\ last = [op |-> "update", kind |-> "Borrowers", success |-> FALSE,
              error |-> Unavailable(BorrowerSvc)]

C16_CreateThenGetByIdRoundTrip ==
  [][\A k \in Kinds : \A e \in FieldInputs(SvcOf(k)) :
       (CreateCall(k, e) /\ last'.success) =>
         LET r == getById(SvcOf(k), TRUE, TableOf(k)', generateId(nextId))
         IN  /\ r.success
             /\ r.data.id = generateId(nextId)
             /\ \A f \in ColSet(SvcOf(k).columns) \ {"id"} :
                  r.data[f] = IF f \in DOMAIN e THEN e[f] ELSE ""]_vars

\* C17: update(id, partial) on an existing id writes back a row that holds the fields
\* of the partial where given and the values stored before everywhere else, keeps the
\* id and the position of the row, and leaves every other row and the number of rows
\* unchanged; on an id that matches no row it returns failure and changes nothing.
\* An id exists when getById finds it.
C17_UpdateMergesInPlace ==
  [][\A k \in Kinds : \A id \in StoreIds : \A u \in Partials(SvcOf(k)) :
       (/\ last'.op = "update" /\ last'.kind = k
        /\ Stored(k) /\ Openable(k)
        /\ UpdateCall(k, id, u)) =>
         LET svc == SvcOf(k)
             T == TableOf(k)
             data == getValues(T)
         IN  /\ getById(svc, TRUE, T, id).success =>
                  LET i == Min(Matches(data, id))
                  IN  /\ last'.success
                      /\ Len(TableOf(k)') = Len(T)
                      /\ \A j \in 1..Len(T) : j # i => TableOf(k)'[j] = T[j]
                      /\ TableOf(k)'[i][1] = id
                      /\ \A c \in 2..Len(svc.columns) :
                           TableOf(k)'[i][c] = IF svc.columns[c] \in DOMAIN u
                                               THEN u[svc.columns[c]]
                                               ELSE data[i][c]
             /\ Matches(data, id) = {} =>
                  /\ ~last'.success
                  /\ last'.error = NotFound(svc, id)
                  /\ TableOf(k)' = T]_vars

\* an update has set one field of the first of the two items under the id a, and the
\* other cells of that row are as before
C17_Witness ==
  /\ last = [op |-> "update", kind |-> "Media", success |-> TRUE, error |-> ""]
  /\ Len(media) = 4
  /\ media[2] = [StoreRow(MediaSvc, "a", "x") EXCEPT ![2] = "upd"]
  /\ media[3] = StoreRow(MediaSvc, "a", "y")

\* C18: delete(id) removes exactly one row, the first row below the header whose first
\* cell equals id, and keeps all other rows in their order; on an id that matches no
\* such row it returns failure and the sheet is unchanged.
C18_DeleteRemovesFirstMatch ==
  [][\A k \in Kinds : \A id \in StoreIds :
       (/\ last'.op = "delete" /\ last'.kind = k
        /\ Stored(k) /\ Openable(k)
        /\ DeleteCall(k, id)) =>
         LET T == TableOf(k)
             hits == Matches(getValues(T), id)
         IN  /\ hits # {} =>
                  /\ last'.success
                  /\ TableOf(k)' = [j \in 1..(Len(T) - 1) |->
                                      IF j < Min(hits) THEN T[j] ELSE T[j + 1]]
             /\ hits = {} =>
                  /\ ~last'.success
                  /\ last'.error = NotFound(SvcOf(k), id)
                  /\ TableOf(k)' = T]_vars

\* a delete has removed the first of the two loans under the id a; the second one and
\* the loan b are left, in that order
C18_Witness ==
  /\ last = [op |-> "delete", kind |-> "Loans", success |-> TRUE, error |-> ""]
  /\ loans = <<LOAN_COLUMNS, StoreRow(LoanSvc, "a", "y"), StoreRow(LoanSvc, "b", "x")>>

\* C19: ensureHeaders is idempotent: from an empty sheet, a sheet with the right
\* header, or a sheet whose first row is not the header, a second ensureHeaders right
\* after the first writes nothing and leaves the sheet as the first call left it.
C19_EnsureHeadersIdempotent ==
  [][\A k \in Kinds :
       (/\ last'.op = "ensureHeaders" /\ last'.kind = k
        /\ Stored(k) /\ Openable(k)
        /\ EnsureHeadersCall(k)) =>
         /\ last'.success
         /\ ensureHeaders(SvcOf(k), TRUE, TableOf(k)') =
              [success |-> TRUE, error |-> "", sheet |-> TableOf(k)']
         /\ (last.op = "ensureHeaders" /\ last.kind = k) => TableOf(k)' = TableOf(k)]_vars

\* ensureHeaders has put the header above the item that was in the first row
C19_Witness ==
  /\ last = [op |-> "ensureHeaders", kind |-> "Media", success |-> TRUE, error |-> ""]
  /\ media = <<MEDIA_COLUMNS, StoreRow(MediaSvc, "a", "x")>>

\* the first row of the sheet holds the names of the columns, in their order
HasHeader(columns, sheet) ==
  /\ Len(sheet) >= 1
  /\ Len(sheet[1]) >= Len(columns)
  /\ \A i \in 1..Len(columns) : sheet[1][i] = columns[i]

\* C20: ensureHeaders never changes or removes a row: when the first row is not the
\* expected header, all rows remain, in order and unmodified, below a newly inserted
\* header row; when the header is already there, nothing is written.
C20_EnsureHeadersKeepsRows ==
  [][\A k \in Kinds :
       (/\ last'.op = "ensureHeaders" /\ last'.kind = k
        /\ Stored(k) /\ Openable(k)
        /\ EnsureHeadersCall(k)) =>
         TableOf(k)' = IF HasHeader(SvcOf(k).columns, TableOf(k))
                       THEN TableOf(k)
                       ELSE <<SvcOf(k).columns>> \o TableOf(k)]_vars

\* ensureHeaders has put the header above two borrowers, the one that was in the first
\* row and the one created under it
C20_Witness ==
  /\ last = [op |-> "ensureHeaders", kind |-> "Borrowers", success |-> TRUE, error |-> ""]
  /\ Len(borrowers) = 3
  /\ borrowers[1] = BORROWER_COLUMNS
  /\ borrowers[2] = StoreRow(BorrowerSvc, "a", "x")
  /\ borrowers[3][1] = generateId(1)

---------------------------------------------------------------------------
(* Discovery over a Drive that holds several spreadsheets of a kind, others *)
(* that only carry the name of a kind, and spreadsheets in the trash.       *)

DriveFile(id, name, t) ==
  [id |-> id, name |-> name, updated |-> t, trashed |-> FALSE, deleted |-> FALSE]

\* three spreadsheets of the borrowers, two of them last updated at the same time, two
\* newer ones that carry the name elsewhere or in another case, and one spreadsheet
\* each of the media and the loans
DiscoverInit ==
  /\ drive = {DriveFile("f1", <<"Borrowers">>, 1),
              DriveFile("f2", <<"Borrowers", "-v2">>, 2),
              DriveFile("f3", <<"Borrowers", " Dev">>, 2),
              DriveFile("f4", <<"Old", "Borrowers">>, 3),
              DriveFile("f5", <<"borrowers">>, 3),
              DriveFile("f6", <<"Media">>, 1),
              DriveFile("f7", <<"Loans", " Master">>, 1)}
  /\ props = NoProps
  /\ borrowers = << >>
  /\ media = << >>
  /\ loans = << >>
  /\ nextId = 1
  /\ now = StartClock
  /\ tz = Min(TimeZones)
  /\ last = StoreCall("init", "", [success |-> TRUE, error |-> ""])

\* the owner moves a spreadsheet to the trash
Trash(file) ==
  /\ ~file.trashed
  /\ drive' = (drive \ {file}) \cup {[file EXCEPT !.trashed = TRUE]}
  /\ last' = StoreCall("trash", "", [success |-> TRUE, error |-> ""])
  /\ UNCHANGED <<borrowers, media, loans, nextId, now, tz, props>>

DiscoverNext ==
  \/ Discover
  \/ ClearConfig
  \/ \E file \in drive : Trash(file)

SpecDiscover == DiscoverInit /\ [][DiscoverNext]_vars

\* the spreadsheets out of the trash whose name starts with the prefix of the kind k
Candidates(k) ==
  {file \in drive :
     ~file.trashed /\ ~file.deleted /\ file.name[1] = SHEET_TO_MASTER_PREFIX[k]}

\* the id stored for the kind k
StoredId(k) == props[getPropertyKeyForSheet(k)]

\* C21: discovery of a kind considers exactly the spreadsheets out of the trash whose
\* name starts with the prefix of the kind, in that case: a spreadsheet whose name
\* holds the prefix without starting with it is never selected, even if it is the
\* most recently modified, and when no spreadsheet starts with the prefix the kind
\* is unresolved.
C21_DiscoveryTakesPrefixMatchesOnly ==
  [][last'.op = "discoverAllMasterSpreadsheets" =>
       \A k \in Kinds :
         IF Candidates(k) = {}
         THEN StoredId(k)' = StoredId(k) /\ last'.error # ""
         ELSE \E file \in Candidates(k) : StoredId(k)' = file.id]_vars

\* a discovery has stored a spreadsheet of the borrowers while the two newer
\* spreadsheets that carry the name elsewhere or in lower case are out of the trash
C21_Witness ==
  /\ last.op = "discoverAllMasterSpreadsheets"
  /\ StoredId("Borrowers") \in {"f2", "f3"}
  /\ \E file \in drive : file.id = "f4" /\ ~file.trashed
  /\ \E file \in drive : file.id = "f5" /\ ~file.trashed

\* C22: among the spreadsheets that start with the prefix, discovery returns one whose
\* modification time is greater than or equal to that of every other one; when
\* several share the greatest time the result is one of them.
C22_DiscoveryTakesANewest ==
  [][last'.op = "discoverAllMasterSpreadsheets" =>
       \A k \in Kinds :
         Candidates(k) # {} =>
           \E file \in Candidates(k) :
             /\ StoredId(k)' = file.id
             /\ \A other \in Candidates(k) : other.updated <= file.updated]_vars

\* a discovery has stored the spreadsheet f3 while f2, of the same last update, is out
\* of the trash
C22_Witness ==
  /\ last.op = "discoverAllMasterSpreadsheets"
  /\ StoredId("Borrowers") = "f3"
  /\ \E file \in drive : file.id = "f2" /\ ~file.trashed

\* the result of a discovery that finds the kinds of the set resolved and no other
Expected(resolved) ==
  LET found == [k \in Kinds |-> IF k \in resolved THEN [found |-> TRUE] ELSE NULL]
  IN  [success |-> resolved # {},
       error |-> IF resolved = {}
                 THEN "No master spreadsheets found. Please create spreadsheets named "
                      \o "\"Borrowers\", \"Media\", and \"Loans\" in your Drive. Errors: "
                      \o joinErrors(found, 1, "")
                 ELSE IF resolved # Kinds
                 THEN "Partial discovery. Missing: " \o joinErrors(found, 1, "")
                 ELSE ""]

\* C23: discoverAllMasterSpreadsheets resolves the three kinds independently and
\* returns success = true exactly when at least one kind resolves; it then stores the
\* id of every resolved kind and the time of the discovery, and the result carries
\* the warning 'Partial discovery' exactly when at least one kind is unresolved.
C23_DiscoveryIsPartial ==
  [][last'.op = "discoverAllMasterSpreadsheets" =>
       LET resolved == {k \in Kinds : Candidates(k) # {}}
       IN  /\ last'.success = (resolved # {})
           /\ last'.error = Expected(resolved).error
           /\ resolved = {} => props' = props
           /\ resolved # {} =>
                /\ \A k \in resolved : \E file \in Candidates(k) : StoredId(k)' = file.id
                /\ \A k \in Kinds \ resolved : StoredId(k)' = StoredId(k)
                /\ props'[PROPERTY_KEYS.LAST_DISCOVERY_DATE] = toISOString(now)]_vars

\* a discovery has found the borrowers and the media and warns that the loans are
\* missing
C23_Witness ==
  /\ last = [op |-> "discoverAllMasterSpreadsheets", kind |-> "", success |-> TRUE,
              error |-> "Partial discovery. Missing: "
                        \o "Could not find spreadsheet starting with \"Loans\""]
  /\ StoredId("Borrowers") # ""
  /\ StoredId("Media") = "f6"
  /\ StoredId("Loans") = ""

---------------------------------------------------------------------------
(* Validation.  A text that a rule reads character by character is the     *)
(* sequence of its characters; a status is a string.  A field that is not  *)
(* given is not in the domain of the record.                               *)

VALID_BORROWER_STATUSES == {"active", "suspended", "inactive"}

\* String.prototype.trim over the one white character of the texts
RECURSIVE trim(_)
trim(text) ==
  IF text = << >> THEN text
  ELSE IF Head(text) = " " THEN trim(Tail(text))
  ELSE IF text[Len(text)] = " " THEN trim(SubSeq(text, 1, Len(text) - 1))
  ELSE text

\* /^[^\s@]+@[^\s@]+\.[^\s@]+$/: one @ after at least one character, a dot after at
\* least one more and before at least one more, and no white character
EMAIL_REGEX(text) ==
  \E i \in 1..Len(text) : \E j \in 1..Len(text) :
    /\ text[i] = "@"
    /\ text[j] = "."
    /\ 1 < i /\ i + 1 < j /\ j < Len(text)
    /\ \A n \in 1..Len(text) : n # i => text[n] \notin {" ", "@"}

\* /^\d{4}-\d{2}-\d{2}$/
DATE_REGEX(text) ==
  /\ Len(text) = 10
  /\ \A n \in {1, 2, 3, 4, 6, 7, 9, 10} : text[n] \in {"0", "1", "2", "3", "4", "5", "6", "7", "8", "9"}
  /\ text[5] = "-"
  /\ text[8] = "-"

\* the field, a text, is not given or is empty
falsy(entity, field) == field \notin DOMAIN entity \/ entity[field] = << >>

\* the field, a string, is not given or is empty
falsyString(entity, field) == field \notin DOMAIN entity \/ entity[field] = ""

\* the validation that stops at the first rule that is violated
validateBorrower_firstOnly(borrower) ==
  LET errors ==
        IF falsy(borrower, "name") \/ Len(trim(borrower.name)) = 0
        THEN <<"Name is required">>
        ELSE IF falsy(borrower, "email") \/ Len(trim(borrower.email)) = 0
        THEN <<"Email is required">>
        ELSE IF ~EMAIL_REGEX(borrower.email)
        THEN <<"Email format is invalid">>
        ELSE IF ~falsyString(borrower, "status") /\ borrower.status \notin VALID_BORROWER_STATUSES
        THEN <<"Invalid status: " \o borrower.status>>
        ELSE IF ~falsy(borrower, "joinDate") /\ ~DATE_REGEX(borrower.joinDate)
        THEN <<"Join date must be in yyyy-MM-dd format">>
        ELSE << >>
  IN  [valid |-> Len(errors) = 0, errors |-> errors]

validateBorrower(borrower) ==
  LET e1 == IF falsy(borrower, "name") \/ Len(trim(borrower.name)) = 0
            THEN <<"Name is required">> ELSE << >>
      e2 == IF falsy(borrower, "email") \/ Len(trim(borrower.email)) = 0
            THEN <<"Email is required">>
            ELSE IF ~EMAIL_REGEX(borrower.email)
            THEN <<"Email format is invalid">> ELSE << >>
      e3 == IF ~falsyString(borrower, "status") /\ borrower.status \notin VALID_BORROWER_STATUSES
            THEN <<"Invalid status: " \o borrower.status>> ELSE << >>
      e4 == IF ~falsy(borrower, "joinDate") /\ ~DATE_REGEX(borrower.joinDate)
            THEN <<"Join date must be in yyyy-MM-dd format">> ELSE << >>
      errors == e1 \o e2 \o e3 \o e4
  IN  [valid |-> Len(errors) = 0, errors |-> errors]

\* the members given to the validation: names, addresses, statuses and join dates that
\* are blank, padded, well formed and ill formed, with all, some or none of the fields
BorrowerInputs ==
  {[f \in DOMAIN b \cap fields |-> b[f]] :
     b \in [name : {<< >>, <<" ">>, <<"a">>, <<" ", "a", " ">>},
            email : {<< >>, <<" ">>, <<"a", "@", "b", ".", "c">>, <<"a", "@", "b">>,
                     <<"@", "b", ".", "c">>, <<" ", "a", "@", "b", ".", "c">>,
                     <<"a", "@", "b", ".", "c", ".", "d">>,
                     <<"a", "@", "@", "b", ".", "c">>},
            status : {"", "active", "suspended", "inactive", "banned"},
            joinDate : {<< >>, <<"2", "0", "2", "4", "-", "0", "1", "-", "0", "5">>,
                        <<"2", "0", "2", "4", "-", "1", "-", "5">>,
                        <<"0", "5", "-", "0", "1", "-", "2", "0", "2", "4">>}],
     fields \in {{"name", "email", "status", "joinDate"}, {"name", "status"},
                 {"email", "joinDate"}, {}}}

ValidateInit ==
  /\ last = [op |-> "init", args |-> << >>, valid |-> TRUE, errors |-> << >>]
  /\ borrowers = << >>
  /\ media = << >>
  /\ loans = << >>
  /\ nextId = 1
  /\ now = StartClock
  /\ tz = Min(TimeZones)
  /\ props = NoProps
  /\ drive = {}

ValidateBorrowerCall(borrower) ==
  LET r == validateBorrower(borrower)
  IN  /\ last' = [op |-> "validateBorrower", args |-> borrower, valid |-> r.valid,
                   errors |-> r.errors]
      /\ UNCHANGED <<borrowers, media, loans, nextId, now, tz, props, drive>>

ValidateNext == \E borrower \in BorrowerInputs : ValidateBorrowerCall(borrower)

SpecValidate == ValidateInit /\ [][ValidateNext]_vars

\* the messages of the list that are not empty, in their order
RECURSIVE given(_)
given(messages) ==
  IF messages = << >> THEN << >>
  ELSE (IF Head(messages) = "" THEN << >> ELSE <<Head(messages)>>) \o given(Tail(messages))

\* C24: validateBorrower returns valid = true exactly when its list of errors is
\* empty, and the list holds one message for every violated rule in the order name,
\* email, status, join date, all of them and not only the first: a member with a name,
\* no email and a status that is not one of the three yields exactly the two messages
\* 'Email is required' and 'Invalid status: ...'.
C24_ValidateBorrowerCollectsAll ==
  last.op = "validateBorrower" =>
    LET b == last.args
        noName == falsy(b, "name") \/ Len(trim(b.name)) = 0
        noEmail == falsy(b, "email") \/ Len(trim(b.email)) = 0
        badEmail == ~noEmail /\ ~EMAIL_REGEX(b.email)
        badStatus == ~falsyString(b, "status") /\ b.status \notin VALID_BORROWER_STATUSES
        badDate == ~falsy(b, "joinDate") /\ ~DATE_REGEX(b.joinDate)
    IN  /\ last.valid = (last.errors = << >>)
        /\ last.errors =
             given(<<IF noName THEN "Name is required" ELSE "",
                     IF noEmail THEN "Email is required"
                     ELSE IF badEmail THEN "Email format is invalid" ELSE "",
                     IF badStatus THEN "Invalid status: " \o b.status ELSE "",
                     IF badDate THEN "Join date must be in yyyy-MM-dd format" ELSE "">>)
        /\ (~noName /\ "email" \notin DOMAIN b /\ badStatus /\ ~badDate) =>
             last.errors = <<"Email is required", "Invalid status: " \o b.status>>

\* the member a, without email and of status banned, has been given the two messages
C24_Witness ==
  /\ last.op = "validateBorrower"
  /\ last.args = [name |-> <<"a">>, status |-> "banned"]
  /\ last.errors = <<"Email is required", "Invalid status: banned">>
  /\ ~last.valid

---------------------------------------------------------------------------
(* Filtered queries: the lists of members and loans the pages show.  The   *)
(* sheets hold an active, a suspended and an inactive member and two loans *)
(* that are active or returned, so that a loan is overdue only when the    *)
(* overdue scan has set it so.                                             *)

\* BorrowerService.getActiveBorrowers: the result of getAll as it is
getActiveBorrowers(open, sheet) ==
  LET result == getAll(BorrowerSvc, open, sheet)
  IN  IF ~result.success THEN result
      ELSE [success |-> TRUE, error |-> "", data |-> result.data]

\* LoanService.getOverdueLoans: the loans read that are active and were due before
\* the start of today
getOverdueLoans(open, sheet, t, zone) ==
  LET result == getAll(LoanSvc, open, sheet)
      today == startOfDay(t, zone)
  IN  IF ~result.success THEN result
      ELSE [success |-> TRUE, error |-> "",
            data |-> SelectSeq(result.data, LAMBDA l : isDue(l, today))]

QueryCall(op, r) ==
  [op |-> op, args |-> << >>, success |-> r.success, id |-> "", count |-> Len(r.data),
   log |-> "", data |-> r.data]

QueryInit ==
  /\ borrowers = <<BORROWER_COLUMNS, Member("m1", "active"), Member("m2", "suspended"),
                   Member("m3", "inactive")>>
  /\ \E d1 \in ScanDueDates, d2 \in ScanDueDates,
        s1 \in {"active", "returned"}, s2 \in {"active", "returned"} :
       /\ media = <<MEDIA_COLUMNS, Item("i1", ItemStatusFor(s1)), Item("i2", ItemStatusFor(s2))>>
       /\ loans = <<LOAN_COLUMNS, ScanLoan(0, "i1", d1, s1), ScanLoan(1, "i2", d2, s2)>>
  /\ nextId = 2
  /\ now = StartClock
  /\ tz \in TimeZones
  /\ last = Call("init", << >>, Fail("", borrowers, media, loans))
  /\ drive = {MasterFile(k, 1) : k \in Kinds}
  /\ props = [NoProps EXCEPT ![getPropertyKeyForSheet("Borrowers")] = FileId("Borrowers", 1),
                             ![getPropertyKeyForSheet("Media")] = FileId("Media", 1),
                             ![getPropertyKeyForSheet("Loans")] = FileId("Loans", 1)]

GetActiveBorrowersCall(open) ==
  /\ last' = QueryCall("getActiveBorrowers", getActiveBorrowers(open, borrowers))
  /\ UNCHANGED <<borrowers, media, loans, nextId, now, tz, props, drive>>

GetOverdueLoansCall(open) ==
  /\ last' = QueryCall("getOverdueLoans", getOverdueLoans(open, loans, now, tz))
  /\ UNCHANGED <<borrowers, media, loans, nextId, now, tz, props, drive>>

QueryNext ==
  \/ Tick
  \/ UpdateOverdueStatuses
  \/ ProcessReturn
  \/ \E open \in BOOLEAN : GetActiveBorrowersCall(open)
  \/ \E open \in BOOLEAN : GetOverdueLoansCall(open)

SpecQuery == QueryInit /\ [][QueryNext]_vars

\* C25: getActiveBorrowers returns exactly the members whose status is active; a
\* suspended or inactive member is never in its result.
C25_ActiveBorrowersOnly ==
  (last.op = "getActiveBorrowers" /\ last.success)
  => /\ \A k \in 1..Len(last.data) : last.data[k].status = "active"
     /\ \A i \in 2..Len(borrowers) :
          borrowers[i][5] = "active"
          => \E k \in 1..Len(last.data) : last.data[k].id = borrowers[i][1]

\* C26: a loan that updateOverdueStatuses has set to overdue is in the result of every
\* later getOverdueLoans, until the loan is returned.
C26_OverdueLoansAreListed ==
  (last.op = "getOverdueLoans" /\ last.success)
  => \A i \in 2..Len(loans) :
       loans[i][7] = "overdue"
       => \E k \in 1..Len(last.data) : last.data[k].id = loans[i][1]

---------------------------------------------------------------------------
(* Web application: the page and the data functions the page calls.  The   *)
(* Access Control spreadsheet is a file of the Drive with an owner,        *)
(* editors and viewers; its id is kept in the script properties.  The      *)
(* caller of a function is the signed-in user, "" when the session gives   *)
(* no address.  The master spreadsheets open at every call.                *)

ACCESS_CONTROL_KEY == "ACCESS_CONTROL_SPREADSHEET_ID"

AccessFile ==
  [id |-> "acl", name |-> <<"CCB Webapp Access Control">>, updated |-> 0,
   trashed |-> FALSE, deleted |-> FALSE,
   owner |-> "admin@lib.org", editors |-> {"ed@lib.org"}, viewers |-> {"viewer@lib.org"}]

\* P[ACCESS_CONTROL_KEY] is the id read when the script is loaded, "" when not set
checkAccess(user, P, files) ==
  IF user = ""
  THEN [authorized |-> FALSE, email |-> "", error |-> "Could not determine user email"]
  ELSE IF P[ACCESS_CONTROL_KEY] = ""
  THEN [authorized |-> FALSE, email |-> user,
        error |-> "Access Control not configured. Contact administrator."]
  ELSE LET found == {file \in files : file.id = P[ACCESS_CONTROL_KEY] /\ ~file.deleted}
       IN  IF found = {}
           THEN [authorized |-> FALSE, email |-> user, error |-> "Could not verify access"]
           ELSE LET file == CHOOSE x \in found : TRUE
                    editors == {toLowerCase(e) : e \in file.editors}
                    viewers == {toLowerCase(e) : e \in file.viewers}
                    owner == toLowerCase(file.owner)
                    userLower == toLowerCase(user)
                IN  [authorized |-> userLower \in editors \/ userLower \in viewers
                                      \/ owner = userLower,
                     email |-> user, error |-> ""]

createBorrower(open, sheet, newId, t, zone, name, email, phone, notes) ==
  create(BorrowerSvc, open, sheet, newId,
         [name |-> name, email |-> email, phone |-> phone, status |-> "active",
          joinDate |-> formatDate(t, zone), notes |-> notes])

\* read: the master spreadsheets the function has read; page: the title served
WebCall(op, user, success, read, page) ==
  [op |-> op, user |-> user, success |-> success, read |-> read, page |-> page]

WebInit ==
  /\ borrowers = <<BORROWER_COLUMNS, Member("m1", "active"), Member("m2", "suspended")>>
  /\ media = <<MEDIA_COLUMNS, Item("i1", "on-loan"), Item("i2", "available")>>
  /\ loans = <<LOAN_COLUMNS, LegacyLoan("active")>>
  /\ nextId = 1
  /\ now = StartClock
  /\ tz \in TimeZones
  /\ last = WebCall("init", "", TRUE, {}, "")
  /\ \E acl \in SUBSET {AccessFile} : drive = {MasterFile(k, 1) : k \in Kinds} \cup acl
  /\ \E id \in {"", AccessFile.id} :
       props = [key \in PropertyKeys \cup {ACCESS_CONTROL_KEY} |->
                  IF key = ACCESS_CONTROL_KEY THEN id
                  ELSE IF key = PROPERTY_KEYS.LAST_DISCOVERY_DATE THEN ""
                  ELSE CHOOSE f \in {FileId(k, 1) : k \in Kinds} :
                         \E k \in Kinds : f = FileId(k, 1) /\ key = getPropertyKeyForSheet(k)]

\* doGet serves the page of the application, or the page that denies access
DoGet(user) ==
  /\ last' = WebCall("doGet", user, TRUE, {},
                     IF ~checkAccess(user, props, drive).authorized
                     THEN "Library Manager - Access Denied"
                     ELSE "Library Manager")
  /\ UNCHANGED <<borrowers, media, loans, nextId, now, tz, props, drive>>

WebGetAllBorrowers(user) ==
  LET result == getAll(BorrowerSvc, TRUE, borrowers)
  IN  /\ last' = WebCall("getAllBorrowers", user, result.success, {"Borrowers"}, "")
      /\ UNCHANGED <<borrowers, media, loans, nextId, now, tz, props, drive>>

WebSaveBorrower(user, borrowerData) ==
  LET result ==
        IF borrowerData.id # ""
        THEN update(BorrowerSvc, TRUE, borrowers, borrowerData.id,
                    [name |-> borrowerData.name, email |-> borrowerData.email,
                     phone |-> borrowerData.phone, notes |-> borrowerData.notes])
        ELSE createBorrower(TRUE, borrowers, generateId(nextId), now, tz,
                            borrowerData.name, borrowerData.email, borrowerData.phone,
                            borrowerData.notes)
  IN  /\ borrowerData.id = "" => nextId <= MaxIds
      /\ borrowers' = result.sheet
      /\ nextId' = IF borrowerData.id = "" THEN nextId + 1 ELSE nextId
      /\ last' = WebCall("saveBorrower", user, result.success, {"Borrowers"}, "")
      /\ UNCHANGED <<media, loans, now, tz, props, drive>>

WebProcessCheckout(user, b, m, d) ==
  LET r == checkout(borrowers, media, loans, generateId(nextId), now, tz, NoCheckoutFault,
                    b, m, d)
  IN  /\ nextId <= MaxIds
      /\ borrowers' = r.borrowers
      /\ media' = r.media
      /\ loans' = r.loans
      /\ nextId' = nextId + r.ids
      /\ last' = WebCall("processCheckout", user, r.success, {"Borrowers"}, "")
      /\ UNCHANGED <<now, tz, props, drive>>

WebReturnLoanById(user, id) ==
  LET r == processReturn(borrowers, media, loans, now, tz,
                         [g |-> TRUE, w |-> TRUE, u |-> TRUE], id)
  IN  /\ borrowers' = r.borrowers
      /\ media' = r.media
      /\ loans' = r.loans
      /\ last' = WebCall("returnLoanById", user, r.success, {"Loans"}, "")
      /\ UNCHANGED <<nextId, now, tz, props, drive>>

WebExtendLoan(user, id, days) ==
  LET r == extendLoan(borrowers, media, loans, tz, [g |-> TRUE, w |-> TRUE], id, days)
  IN  /\ r.success => newDate(r.due) <= 24 * MaxDay
      /\ borrowers' = r.borrowers
      /\ media' = r.media
      /\ loans' = r.loans
      /\ last' = WebCall("extendLoan", user, r.success, {"Loans"}, "")
      /\ UNCHANGED <<nextId, now, tz, props, drive>>

\* the callers are the owner, an editor signed in with capitals, a stranger, and a
\* session without address; saveBorrower is sent a member with an id, for a change, or
\* without, for a new member
WebNext ==
  \E user \in {"admin@lib.org", "Ed@Lib.org", "guest@else.org", ""} :
    \/ DoGet(user)
    \/ WebGetAllBorrowers(user)
    \/ \E borrowerData \in
           {[id |-> "m2", name |-> "renamed", email |-> "m2@example.org", phone |-> "",
             notes |-> ""],
            [id |-> "", name |-> "new", email |-> "new@example.org", phone |-> "",
             notes |-> ""]} :
         WebSaveBorrower(user, borrowerData)
    \/ \E b \in {"m1"}, m \in {"i1", "i2"}, d \in LoanDays : WebProcessCheckout(user, b, m, d)
    \/ \E id \in LoanArgs : WebReturnLoanById(user, id)
    \/ \E id \in LoanArgs, days \in ExtendDays : WebExtendLoan(user, id, days)

SpecWeb == WebInit /\ [][WebNext]_vars

\* C27: a data function of the web application called by a signed-in user who is not
\* an editor, a viewer or the owner of the Access Control spreadsheet reads no master
\* spreadsheet and writes none.
C27_NoAccessNoData ==
  [][(/\ last'.op \in {"getAllBorrowers", "saveBorrower", "processCheckout",
                       "returnLoanById", "extendLoan"}
      /\ last'.user # ""
      /\ ~checkAccess(last'.user, props, drive).authorized)
     => /\ last'.read = {}
        /\ UNCHANGED <<borrowers, media, loans>>]_vars

---------------------------------------------------------------------------
(* Two callers at once.  An execution of the script runs beside the others *)
(* and takes no lock, so the calls one operation makes to a spreadsheet    *)
(* interleave with those of another.  Here last holds the calls in flight: *)
(* for each caller where its call stands, what it was given, what it has   *)
(* read and what it returned; writes counts the writes made to the sheet.  *)

Callers == {1, 2}

\* the second half of update: the row is looked up and merged in the values read
\* before, and written at its position into the sheet as it is now
\* the second half that merges into the row the sheet holds at the time of the write
updateWrite_fresh(svc, sheet, data, id, updates) ==
  update(svc, TRUE, sheet, id, updates)

updateWrite(svc, sheet, data, id, updates) ==
  IF Matches(data, id) = {}
  THEN [success |-> FALSE, error |-> NotFound(svc, id), data |-> NULL, sheet |-> sheet]
  ELSE LET i == Min(Matches(data, id))
           existingEntity == rowToEntity(svc.columns, data[i])
       IN  IF existingEntity = NULL
           THEN [success |-> FALSE, error |-> "Failed to parse existing entity",
                 data |-> NULL, sheet |-> sheet]
           ELSE LET updatedEntity ==
                      [k \in DOMAIN existingEntity \cup DOMAIN updates \cup {"id"} |->
                         IF k = "id" THEN id
                         ELSE IF k \in DOMAIN updates THEN updates[k]
                         ELSE existingEntity[k]]
                    row == entityToRow(svc.columns, updatedEntity)
                    written == [j \in 1..Len(sheet[i]) |->
                                  IF j <= Len(row) THEN row[j] ELSE sheet[i][j]]
                    \* a write below the last row makes the rows down to its own
                    below == [n \in 1..(i - Len(sheet)) |->
                                IF n = i - Len(sheet) THEN row
                                ELSE [j \in 1..Len(row) |-> ""]]
                IN  [success |-> TRUE, error |-> "", data |-> updatedEntity,
                     sheet |-> IF i <= Len(sheet) THEN [sheet EXCEPT ![i] = written]
                               ELSE sheet \o below]

RaceInit ==
  /\ borrowers = <<BORROWER_COLUMNS, Member("m1", "active"), Member("m2", "suspended")>>
  /\ media = <<MEDIA_COLUMNS>>
  /\ loans = <<LOAN_COLUMNS>>
  /\ nextId = 1
  /\ now = StartClock
  /\ tz = Min(TimeZones)
  /\ last = [op |-> "init", writes |-> 0,
             calls |-> [p \in Callers |->
                          [pc |-> "idle", id |-> "", updates |-> [k \in {} |-> ""],
                           data |-> << >>, seen |-> 0, success |-> FALSE, error |-> ""]]]
  /\ drive = {MasterFile(k, 1) : k \in Kinds}
  /\ props = [NoProps EXCEPT ![getPropertyKeyForSheet("Borrowers")] = FileId("Borrowers", 1),
                             ![getPropertyKeyForSheet("Media")] = FileId("Media", 1),
                             ![getPropertyKeyForSheet("Loans")] = FileId("Loans", 1)]

\* the first half of update: the caller p enters update(id, updates), the spreadsheet
\* is opened and its values are read
UpdateBegin(p, id, updates, open) ==
  LET r == IF ~open
           THEN [success |-> FALSE, error |-> Unavailable(BorrowerSvc), data |-> << >>]
           ELSE [success |-> TRUE, error |-> "", data |-> getValues(borrowers)]
  IN  /\ last.calls[p].pc = "idle"
      /\ last' = [op |-> "update", writes |-> last.writes,
                  calls |-> [last.calls EXCEPT ![p] =
                               [pc |-> IF r.success THEN "read" ELSE "done",
                                id |-> id, updates |-> updates, data |-> r.data,
                                seen |-> last.writes, success |-> FALSE,
                                error |-> r.error]]]
      /\ UNCHANGED <<borrowers, media, loans, nextId, now, tz, props, drive>>

\* the caller p goes through the values it read, writes the row and returns
UpdateEnd(p) ==
  LET c == last.calls[p]
      r == updateWrite(BorrowerSvc, borrowers, c.data, c.id, c.updates)
  IN  /\ c.pc = "read"
      /\ borrowers' = r.sheet
      /\ last' = [op |-> "update",
                  writes |-> IF r.success THEN last.writes + 1 ELSE last.writes,
                  calls |-> [last.calls EXCEPT ![p] =
                               [c EXCEPT !.pc = "done", !.success = r.success,
                                         !.error = r.error]]]
      /\ UNCHANGED <<media, loans, nextId, now, tz, props, drive>>

\* the fields a caller changes: a name, a phone number, a name with a note, a status
UpdateRaceNext ==
  \E p \in Callers :
    \/ \E id \in MemberArgs, open \in BOOLEAN,
          updates \in {[name |-> "Ann"], [phone |-> "555"],
                       [name |-> "Bea", notes |-> "moved"], [status |-> "suspended"]} :
         UpdateBegin(p, id, updates, open)
    \/ UpdateEnd(p)

SpecUpdateRace == RaceInit /\ [][UpdateRaceNext]_vars

\* C28: when two updates of one row have both read the sheet before either writes, both
\* return success and the row is left as the later writer wrote it: the fields the
\* later writer was given, and in every other field the value the later writer had
\* read, so that a field only the earlier writer changed no longer holds what the
\* earlier writer wrote.
C28_LaterUpdateWins ==
  [][\A p \in Callers :
       LET c == last.calls[p]
           o == last.calls[3 - p]
       IN  (/\ c.pc = "read" /\ last'.calls[p].pc = "done"
            /\ o.pc = "done" /\ o.id = c.id
            /\ Matches(c.data, c.id) # {}
            /\ c.seen < last.writes)
           => LET i == Min(Matches(c.data, c.id))
              IN  /\ o.success
                  /\ last'.calls[p].success
                  /\ \A j \in 1..Len(BORROWER_COLUMNS) :
                       borrowers'[i][j] =
                         IF BORROWER_COLUMNS[j] \in DOMAIN c.updates
                         THEN c.updates[BORROWER_COLUMNS[j]]
                         ELSE c.data[i][j]
                  /\ \A j \in 1..Len(BORROWER_COLUMNS) :
                       (/\ BORROWER_COLUMNS[j] \notin DOMAIN c.updates
                        /\ borrowers[i][j] # c.data[i][j])
                       => /\ BORROWER_COLUMNS[j] \in DOMAIN o.updates
                          /\ borrowers[i][j] = o.updates[BORROWER_COLUMNS[j]]
                          /\ borrowers'[i][j] # o.updates[BORROWER_COLUMNS[j]]]_vars

\* both updates of m1 returned success; the first writer's phone number is gone and the
\* name of the second writer stands
C28_Witness ==
  /\ last.op = "update"
  /\ \A p \in Callers : last.calls[p].pc = "done" /\ last.calls[p].success
                          /\ last.calls[p].id = "m1"
  /\ \E p \in Callers :
       /\ last.calls[p].updates = [phone |-> "555"]
       /\ last.calls[3 - p].updates = [name |-> "Ann"]
  /\ borrowers[2][2] = "Ann"
  /\ borrowers[2][4] = ""

---------------------------------------------------------------------------
(* Two checkouts at once.  A checkout makes its two checks, appends the    *)
(* loan and writes the item status in separate calls to the spreadsheets;  *)
(* the calls of another checkout can come between them.  writes counts the *)
(* item-status writes made.                                                *)

\* the write of the item status at the end of checkout, and the removal of the loan
\* when the write fails
\* the write that looks once more whether the item is available
checkoutMark_rechecked(M, L, mediaId, loanId) ==
  LET mediaCheck == isAvailable(TRUE, M, mediaId)
      mediaUpdate == markAsOnLoan(TRUE, M, mediaId)
      rollback == delete(LoanSvc, TRUE, L, loanId)
  IN  IF ~mediaCheck.data \/ ~mediaUpdate.success
      THEN [success |-> FALSE, error |-> "Failed to update media status: " \o mediaUpdate.error,
            media |-> M, loans |-> rollback.sheet]
      ELSE [success |-> TRUE, error |-> "", media |-> mediaUpdate.sheet, loans |-> L]

checkoutMark(M, L, mediaId, loanId) ==
  LET mediaUpdate == markAsOnLoan(TRUE, M, mediaId)
      rollback == delete(LoanSvc, TRUE, L, loanId)
  IN  IF ~mediaUpdate.success
      THEN [success |-> FALSE, error |-> "Failed to update media status: " \o mediaUpdate.error,
            media |-> mediaUpdate.sheet, loans |-> rollback.sheet]
      ELSE [success |-> TRUE, error |-> "", media |-> mediaUpdate.sheet, loans |-> L]

CheckoutRaceInit ==
  /\ borrowers = <<BORROWER_COLUMNS, Member("m1", "active"), Member("m2", "suspended"),
                   Member("m3", "active")>>
  /\ media = <<MEDIA_COLUMNS, Item("i1", "on-loan"), Item("i2", "available")>>
  /\ loans = <<LOAN_COLUMNS, LegacyLoan("active")>>
  /\ nextId = 1
  /\ now = StartClock
  /\ tz \in TimeZones
  /\ last = [op |-> "init", writes |-> 0,
             calls |-> [p \in Callers |->
                          [pc |-> "idle", borrowerId |-> "", mediaId |-> "", loanId |-> "",
                           seen |-> 0, success |-> FALSE, error |-> ""]]]
  /\ drive = {MasterFile(k, 1) : k \in Kinds}
  /\ props = [NoProps EXCEPT ![getPropertyKeyForSheet("Borrowers")] = FileId("Borrowers", 1),
                             ![getPropertyKeyForSheet("Media")] = FileId("Media", 1),
                             ![getPropertyKeyForSheet("Loans")] = FileId("Loans", 1)]

\* the caller p enters checkout(borrowerId, mediaId) and makes the two checks
CheckoutCheck(p, borrowerId, mediaId) ==
  LET borrowerCheck == isInGoodStanding(TRUE, borrowers, borrowerId)
      mediaCheck == isAvailable(TRUE, media, mediaId)
      r == IF ~borrowerCheck.success
           THEN [success |-> FALSE, error |-> borrowerCheck.error]
           ELSE IF ~borrowerCheck.data
           THEN [success |-> FALSE, error |-> "Borrower is not in good standing"]
           ELSE IF ~mediaCheck.success
           THEN [success |-> FALSE, error |-> mediaCheck.error]
           ELSE IF ~mediaCheck.data
           THEN [success |-> FALSE, error |-> "Media item is not available for checkout"]
           ELSE [success |-> TRUE, error |-> ""]
  IN  /\ last.calls[p].pc = "idle"
      /\ last' = [op |-> "checkout", writes |-> last.writes,
                  calls |-> [last.calls EXCEPT ![p] =
                               [pc |-> IF r.success THEN "checked" ELSE "done",
                                borrowerId |-> borrowerId, mediaId |-> mediaId,
                                loanId |-> "", seen |-> last.writes,
                                success |-> FALSE, error |-> r.error]]]
      /\ UNCHANGED <<borrowers, media, loans, nextId, now, tz, props, drive>>

\* the caller p appends its loan
CheckoutCreate(p) ==
  LET c == last.calls[p]
      loanResult ==
        create(LoanSvc, TRUE, loans, generateId(nextId),
               [borrowerId |-> c.borrowerId, mediaId |-> c.mediaId,
                checkoutDate |-> formatDate(now, tz),
                dueDate |-> formatDate(addDays(now, DEFAULT_LOAN_DAYS), tz),
                returnDate |-> "", status |-> "active"])
  IN  /\ c.pc = "checked"
      /\ loans' = loanResult.sheet
      /\ nextId' = nextId + 1
      /\ last' = [op |-> "checkout", writes |-> last.writes,
                  calls |-> [last.calls EXCEPT ![p] =
                               [c EXCEPT !.pc = "created", !.loanId = loanResult.data.id]]]
      /\ UNCHANGED <<borrowers, media, now, tz, props, drive>>

\* the caller p writes the item status and returns
CheckoutMark(p) ==
  LET c == last.calls[p]
      r == checkoutMark(media, loans, c.mediaId, c.loanId)
  IN  /\ c.pc = "created"
      /\ media' = r.media
      /\ loans' = r.loans
      /\ last' = [op |-> "checkout", writes |-> last.writes + 1,
                  calls |-> [last.calls EXCEPT ![p] =
                               [c EXCEPT !.pc = "done", !.success = r.success,
                                         !.error = r.error]]]
      /\ UNCHANGED <<borrowers, nextId, now, tz, props, drive>>

CheckoutRaceNext ==
  \E p \in Callers :
    \/ \E borrowerId \in {"m1", "m2", "m3"}, mediaId \in {"i1", "i2"} :
         CheckoutCheck(p, borrowerId, mediaId)
    \/ CheckoutCreate(p)
    \/ CheckoutMark(p)

SpecCheckoutRace == CheckoutRaceInit /\ [][CheckoutRaceNext]_vars

\* C29: when two checkouts of one available item, each for a member in good standing,
\* have both made their checks before either has written the item status, both return
\* success and the item has two active loans.
C29_BothCheckoutsSucceed ==
  (/\ \A p \in Callers : /\ last.op = "checkout"
                          /\ last.calls[p].pc = "done"
                          /\ last.calls[p].loanId # ""
                          /\ last.calls[p].seen = 0
   /\ last.calls[1].mediaId = last.calls[2].mediaId)
  => /\ \A p \in Callers : last.calls[p].success
     /\ Cardinality(ActiveLoansOf(last.calls[1].mediaId)) = 2
     /\ \A p \in Callers :
          \E i \in ActiveLoansOf(last.calls[1].mediaId) :
            loans[i][1] = last.calls[p].loanId /\ loans[i][2] = last.calls[p].borrowerId

\* m1 and m3 both hold an active loan of item i2
C29_Witness ==
  /\ last.op = "checkout"
  /\ \A p \in Callers : last.calls[p].pc = "done" /\ last.calls[p].success
                          /\ last.calls[p].mediaId = "i2"
  /\ {last.calls[p].borrowerId : p \in Callers} = {"m1", "m3"}
  /\ Cardinality(ActiveLoansOf("i2")) = 2
  /\ RowOf(media, "i2") = 3 /\ media[3][6] = "on-loan"

---------------------------------------------------------------------------
(* Ids: a store that starts with no two records under one id, under create, *)
(* update and delete.                                                      *)

\* the store starts from an empty sheet, the header alone, or two records
IdsInit ==
  /\ \E k \in Kinds :
       /\ \E t \in {<< >>,
                    <<SvcOf(k).columns>>,
                    <<SvcOf(k).columns, StoreRow(SvcOf(k), "a", "x"),
                      StoreRow(SvcOf(k), "b", "y")>>} :
            /\ borrowers = IF k = "Borrowers" THEN t ELSE << >>
            /\ media = IF k = "Media" THEN t ELSE << >>
            /\ loans = IF k = "Loans" THEN t ELSE << >>
       /\ drive = {MasterFile(k, 1)}
       /\ props = [NoProps EXCEPT ![getPropertyKeyForSheet(k)] = FileId(k, 1)]
  /\ nextId = 1
  /\ now = StartClock
  /\ tz = Min(TimeZones)
  /\ last = StoreCall("init", "", [success |-> TRUE, error |-> ""])

\* the fields given to update: one field, and a field together with the id of
\* another record
IdsNext ==
  \E k \in Kinds :
    \/ \E e \in FieldInputs(SvcOf(k)) : CreateCall(k, e)
    \/ \E id \in StoreIds,
          u \in {[f \in {SvcOf(k).columns[2]} |-> "upd"],
                 [f \in {"id", SvcOf(k).columns[2]} |-> IF f = "id" THEN "b" ELSE "taken"]} :
         UpdateCall(k, id, u)
    \/ \E id \in StoreIds \cup {generateId(1)} : DeleteCall(k, id)

SpecIds == IdsInit /\ [][IdsNext]_vars

\* C30: in a store that starts with no two rows under one id, no two rows are under one
\* id after any create, update and delete, also after an update whose fields carry
\* the id of another record.
C30_IdsStayDistinct ==
  \A k \in Kinds :
    \A i, j \in 1..Len(TableOf(k)) :
      i # j => TableOf(k)[i][1] # TableOf(k)[j][1]

\* record a was updated with fields that carry the id b, a record was created and b was
\* deleted: a is still a, beside the new record
C30_Witness ==
  \E k \in Kinds :
    /\ last.op = "delete" /\ last.success
    /\ Len(TableOf(k)) = 3
    /\ TableOf(k)[2][1] = "a" /\ TableOf(k)[2][2] = "taken"
    /\ TableOf(k)[3][1] = generateId(1)

\* ---------------------------------------------------------------------------
\* The life of a loan: two loans of any status and any due date, and the
\* operations of the loan service that work on a loan that exists
\* ---------------------------------------------------------------------------

SpecLife == ScanInit /\ [][Tick \/ ProcessReturn \/ ExtendLoan \/ UpdateOverdueStatuses]_vars

\* C31: a loan that is overdue is never active again: after any operation it is overdue
\* or returned, its row is changed by processReturn alone, which makes it returned,
\* extendLoan on it fails, and updateOverdueStatuses does not count it.
C31_OverdueNeverActiveAgain ==
  [][\A i \in 2..Len(loans) :
       loans[i][7] = "overdue" =>
         /\ Len(loans') = Len(loans)
         /\ loans'[i][1] = loans[i][1]
         /\ loans'[i][7] \in {"overdue", "returned"}
         /\ loans'[i] # loans[i] =>
              /\ last'.op = "processReturn" /\ last'.args = <<loans[i][1]>>
              /\ last'.success
              /\ loans'[i][7] = "returned"
         /\ (last'.op = "extendLoan" /\ last'.args[1] = loans[i][1]) => ~last'.success
         /\ last'.op = "updateOverdueStatuses" =>
              last'.count <= Cardinality({j \in 2..Len(loans) : loans[j][7] = "active"})]_vars

\* extendLoan was called on an overdue loan and failed, and the loan is still overdue
C31_Witness ==
  /\ last.op = "extendLoan" /\ ~last.success
  /\ \E i \in 2..Len(loans) : loans[i][1] = last.args[1] /\ loans[i][7] = "overdue"

\* ---------------------------------------------------------------------------
\* Reading a sheet: the sheets that create leaves behind, among them the one that
\* two records of one field each make of a blank sheet, whose rows are read short
\* ---------------------------------------------------------------------------

SpecRead ==
  /\ \E k \in Kinds :
       /\ \E t \in {<< >>,
                    <<SvcOf(k).columns>>,
                    <<SvcOf(k).columns, StoreRow(SvcOf(k), "a", "x"),
                      StoreRow(SvcOf(k), "b", "y")>>,
                    <<entityToRow(SvcOf(k).columns, [f \in {"id"} |-> "a"]),
                      entityToRow(SvcOf(k).columns,
                                  [f \in {"id", SvcOf(k).columns[2]} |->
                                     IF f = "id" THEN "b" ELSE "new"])>>} :
            /\ borrowers = IF k = "Borrowers" THEN t ELSE << >>
            /\ media = IF k = "Media" THEN t ELSE << >>
            /\ loans = IF k = "Loans" THEN t ELSE << >>
       /\ drive = {MasterFile(k, 1)}
       /\ props = [NoProps EXCEPT ![getPropertyKeyForSheet(k)] = FileId(k, 1)]
  /\ nextId = 1
  /\ now = StartClock
  /\ tz = Min(TimeZones)
  /\ last = StoreCall("init", "", [success |-> TRUE, error |-> ""])
  /\ [][\E k \in Kinds :
          \/ GetAllCall(k)
          \/ \E e \in FieldInputs(SvcOf(k)) : CreateCall(k, e)
          \/ \E id \in StoreIds : DeleteCall(k, id)
          \/ EnsureHeadersCall(k)]_vars

\* C32: getAll returns success on a sheet that can be opened, and its records are, in
\* the order of the rows, those of the rows below the first of the values read that have
\* at least as many cells as the kind has columns, each column holding the cell of its
\* position; the shorter rows give no record.
C32_GetAllSkipsHeaderAndShortRows ==
  \A k \in Kinds :
    LET svc == SvcOf(k)
        data == getValues(TableOf(k))
        long == {i \in 2..Len(data) : Len(data[i]) >= Len(svc.columns)}
        r == getAll(svc, TRUE, TableOf(k))
    IN  /\ r.success
        /\ Len(r.data) = Cardinality(long)
        /\ \A i \in long :
             LET e == r.data[Cardinality({j \in long : j <= i})]
             IN  /\ DOMAIN e = ColSet(svc.columns)
                 /\ \A c \in 1..Len(svc.columns) : e[svc.columns[c]] = data[i][c]

\* getAll has run with success on a sheet whose rows are read shorter than the columns
\* of the kind, and gives no record of the rows below the first
C32_Witness ==
  /\ last.op = "getAll" /\ last.success
  /\ LET data == getValues(TableOf(last.kind))
     IN  /\ Len(data) >= 2
         /\ Len(data[2]) < Len(SvcOf(last.kind).columns)
         /\ getAll(SvcOf(last.kind), TRUE, TableOf(last.kind)).data = << >>

\* ---------------------------------------------------------------------------
\* The answers of checkout: members of every status, items on loan and available,
\* ids that no row holds, and a spreadsheet that cannot be opened
\* ---------------------------------------------------------------------------

SpecCheckoutOrder ==
  /\ QueryInit
  /\ [][\E b \in MemberArgs \cup {"m3"}, m \in ItemArgs,
           f \in {f \in CheckoutFaults : f.u} :
          LET r == checkout(borrowers, media, loans, generateId(nextId), now, tz, f, b, m,
                            DEFAULT_LOAN_DAYS)
          IN  /\ nextId <= MaxIds + 1
              /\ borrowers' = r.borrowers
              /\ media' = r.media
              /\ loans' = r.loans
              /\ nextId' = nextId + r.ids
              /\ last' = [op |-> "checkout", args |-> <<b, m, f>>,
                          success |-> r.success, error |-> r.error]
              /\ UNCHANGED <<now, tz, props, drive>>]_vars

\* C33: checkout answers with the message of the first check that fails, the member
\* before the item: the error of the lookup of the member, 'Borrower is not in good
\* standing' for a member that is not active, then the error of the lookup of the item,
\* then 'Media item is not available for checkout'; with both ineligible the message
\* is the one of the member, and with both eligible it is none of these.
C33_FirstFailedCheckIsReported ==
  [][last'.op = "checkout" =>
       LET b == last'.args[1]
           m == last'.args[2]
           f == last'.args[3]
           memberMessage ==
             IF ~f.b THEN Unavailable(BorrowerSvc)
             ELSE IF ~HasRow(borrowers, b) THEN NotFound(BorrowerSvc, b)
             ELSE IF ~MemberIsActive(b) THEN "Borrower is not in good standing"
             ELSE ""
           itemMessage ==
             IF ~f.m THEN Unavailable(MediaSvc)
             ELSE IF ~HasRow(media, m) THEN NotFound(MediaSvc, m)
             ELSE IF ~ItemIsAvailable(m) THEN "Media item is not available for checkout"
             ELSE ""
       IN  /\ memberMessage # "" => (~last'.success /\ last'.error = memberMessage)
           /\ (memberMessage = "" /\ itemMessage # "") =>
                (~last'.success /\ last'.error = itemMessage)
           /\ (memberMessage = "" /\ itemMessage = "") =>
                last'.error \notin {"Borrower is not in good standing",
                                    "Media item is not available for checkout",
                                    NotFound(BorrowerSvc, b), NotFound(MediaSvc, m),
                                    Unavailable(BorrowerSvc), Unavailable(MediaSvc)}]_vars

\* a checkout of an item on loan for the suspended member m2 was answered with the
\* message of the member
C33_Witness ==
  /\ last.op = "checkout" /\ ~last.success
  /\ last.args[1] = "m2" /\ ~MemberIsActive("m2")
  /\ HasRow(media, last.args[2]) /\ ~ItemIsAvailable(last.args[2])
  /\ last.error = "Borrower is not in good standing"

\* ---------------------------------------------------------------------------
\* Suspending and reactivating a member
\* ---------------------------------------------------------------------------

\* the suspension that writes the note and leaves the status as it is
suspendBorrower_noteOnly(open, sheet, id, reason) ==
  update(BorrowerSvc, open, sheet, id,
         [notes |-> IF reason # "" THEN "Suspended: " \o reason ELSE "Suspended"])

suspendBorrower(open, sheet, id, reason) ==
  LET notes == IF reason # "" THEN "Suspended: " \o reason ELSE "Suspended"
  IN  update(BorrowerSvc, open, sheet, id, [status |-> "suspended", notes |-> notes])

reactivateBorrower(open, sheet, id) ==
  update(BorrowerSvc, open, sheet, id, [status |-> "active"])

SpecStanding ==
  /\ CheckoutRaceInit
  /\ [][\/ \E id \in {"m1", "mX"}, reason \in {"late"} :
           LET r == suspendBorrower(TRUE, borrowers, id, reason)
           IN  /\ borrowers' = r.sheet
               /\ last' = Call("suspendBorrower", <<id, reason>>,
                               [Fail(r.error, r.sheet, media, loans)
                                  EXCEPT !.success = r.success])
               /\ UNCHANGED <<media, loans, nextId, now, tz, props, drive>>
       \/ \E id \in {"m1", "mX"} :
           LET r == reactivateBorrower(TRUE, borrowers, id)
           IN  /\ borrowers' = r.sheet
               /\ last' = Call("reactivateBorrower", <<id>>,
                               [Fail(r.error, r.sheet, media, loans)
                                  EXCEPT !.success = r.success])
               /\ UNCHANGED <<media, loans, nextId, now, tz, props, drive>>
       \/ /\ nextId <= MaxIds
          /\ \E b \in {"m1", "m2", "m3"}, m \in ItemArgs :
               CheckoutCall(b, m, DEFAULT_LOAN_DAYS, NoCheckoutFault)
       \/ ProcessReturn]_vars

\* C34: a successful suspendBorrower leaves the member suspended and changes no loan,
\* no item and no other member; while a member is suspended every checkout for it fails
\* and writes nothing, and it stays suspended through every step but a successful
\* reactivateBorrower of it; after that one the member is active and checkout of every
\* available item for it succeeds; and every open loan of a suspended member can be
\* returned.
C34_SuspendedUntilReactivated ==
  [][/\ (last'.op = "suspendBorrower" /\ last'.success) =>
          /\ HasRow(borrowers', last'.args[1])
          /\ borrowers'[RowOf(borrowers', last'.args[1])][5] = "suspended"
          /\ Len(borrowers') = Len(borrowers)
          /\ \A i \in 1..Len(borrowers) :
               i # RowOf(borrowers', last'.args[1]) => borrowers'[i] = borrowers[i]
          /\ UNCHANGED <<media, loans>>
     /\ \A i \in 2..Len(borrowers) :
          (/\ borrowers[i][5] = "suspended"
           /\ ~(/\ last'.op = "reactivateBorrower" /\ last'.success
                /\ last'.args[1] = borrowers[i][1])) =>
            /\ borrowers'[i][5] = "suspended"
            /\ (last'.op = "checkout" /\ last'.args[1] = borrowers[i][1]) =>
                 (~last'.success /\ UNCHANGED <<borrowers, media, loans>>)
     /\ (last'.op = "reactivateBorrower" /\ last'.success) =>
          /\ borrowers'[RowOf(borrowers', last'.args[1])][5] = "active"
          /\ \A j \in 2..Len(media') :
               media'[j][6] = "available" =>
                 checkout(borrowers', media', loans', generateId(nextId'), now', tz',
                          NoCheckoutFault, last'.args[1], media'[j][1],
                          DEFAULT_LOAN_DAYS).success
     /\ \A i \in 2..Len(borrowers'), n \in 2..Len(loans') :
          (/\ borrowers'[i][5] = "suspended"
           /\ loans'[n][2] = borrowers'[i][1]
           /\ loans'[n][7] \in {"active", "overdue"}) =>
            LET r == processReturn(borrowers', media', loans', now', tz',
                                   [g |-> TRUE, w |-> TRUE, u |-> TRUE], loans'[n][1])
            IN  r.success /\ r.loans[n][7] = "returned"]_vars

\* the member m1, active at the start and suspended since, was refused an available item while it
\* still has a loan out
C34_Witness ==
  /\ last.op = "checkout" /\ ~last.success
  /\ last.args[1] = "m1"
  /\ borrowers[RowOf(borrowers, "m1")][5] = "suspended"
  /\ ItemIsAvailable(last.args[2])
  /\ \E n \in 2..Len(loans) : loans[n][2] = "m1" /\ loans[n][7] = "active"

\* ---------------------------------------------------------------------------
\* The overdue test of the validation utilities
\* ---------------------------------------------------------------------------

\* currentDate > dueDate, where dueDate is the instant the text is read as, midnight
\* UTC, moved by setHours(23, 59, 59, 999) to the last millisecond of the day it falls
\* on in the time zone of the script; on a clock of whole hours an instant lies after
\* that millisecond when it is not before the midnight that follows it
isLoanOverdue(loan, currentDate, zone) ==
  IF loan.status # "active" THEN FALSE
  ELSE LET dueDate == newDate(loan.dueDate)
       IN  /\ dueDate # NaN
           /\ currentDate >= startOfDay(dueDate, zone) + 24

SpecIsOverdue ==
  /\ ScanInit
  /\ [][\/ Tick
       \/ \E i \in 2..Len(loans) :
            /\ last' = [op |-> "isLoanOverdue", args |-> <<loans[i][1]>>,
                        result |-> isLoanOverdue(rowToEntity(LOAN_COLUMNS, loans[i]),
                                                 now, tz)]
            /\ UNCHANGED <<borrowers, media, loans, nextId, now, tz, props, drive>>]_vars

\* C35: isLoanOverdue answers false for a loan that is not active, and for an active
\* loan answers true exactly when today, in the time zone of the script, is a day after
\* the due date: false on the due date and before it.
C35_OverdueAfterDueDateOnly ==
  last.op = "isLoanOverdue" =>
    LET loan == loans[RowOf(loans, last.args[1])]
    IN  last.result = (loan[7] = "active" /\ Today > DayOf(loan[5]))

\* ---------------------------------------------------------------------------
\* What a discovery writes
\* ---------------------------------------------------------------------------

\* C36: a discovery changes no property but the addresses of the kinds it has found
\* and, when it has found one, the time of the discovery: the address stored for a
\* kind it has not found stays as it was, and a discovery that finds no kind fails and
\* leaves every property as it was.
C36_DiscoveryWritesResolvedKeysOnly ==
  [][last'.op = "discoverAllMasterSpreadsheets" =>
       LET resolved == {k \in Kinds : Candidates(k) # {}}
           written == {key \in DOMAIN props : props'[key] # props[key]}
       IN  /\ DOMAIN props' = DOMAIN props
           /\ written \subseteq
                {getPropertyKeyForSheet(k) : k \in resolved}
                  \cup (IF resolved # {} THEN {PROPERTY_KEYS.LAST_DISCOVERY_DATE} ELSE {})
           /\ \A k \in Kinds \ resolved : StoredId(k)' = StoredId(k)
           /\ resolved = {} => (~last'.success /\ props' = props)]_vars

\* a discovery has found the borrowers while the spreadsheet of the media is in the
\* trash, and the address of the media stored by an earlier discovery is still there
C36_Witness ==
  /\ last.op = "discoverAllMasterSpreadsheets" /\ last.success
  /\ Candidates("Media") = {}
  /\ Candidates("Borrowers") # {}
  /\ StoredId("Media") = "f6"

\* ---------------------------------------------------------------------------
\* Items withdrawn while on loan: the staff set the status of an item, loans are
\* returned and items are taken out
\* ---------------------------------------------------------------------------

SpecWithdrawn ==
  /\ CheckoutRaceInit
  /\ [][\/ \E id \in ItemArgs, status \in {"lost", "damaged", "retired"} :
           LET r == updateStatus(TRUE, media, id, status)
           IN  /\ media' = r.sheet
               /\ last' = [op |-> "updateStatus", args |-> <<id, status>>,
                           success |-> r.success, log |-> "", before |-> media]
               /\ UNCHANGED <<borrowers, loans, nextId, now, tz, props, drive>>
       \/ \E id \in LoanArgs, u \in BOOLEAN :
           LET r == processReturn(borrowers, media, loans, now, tz,
                                  [g |-> TRUE, w |-> TRUE, u |-> u], id)
           IN  /\ media' = r.media
               /\ loans' = r.loans
               /\ last' = [op |-> "processReturn", args |-> <<id>>,
                           success |-> r.success, log |-> r.log, before |-> media]
               /\ UNCHANGED <<borrowers, nextId, now, tz, props, drive>>
       \/ /\ nextId <= MaxIds
          /\ \E b \in {"m1", "m2"}, m \in ItemArgs :
               CheckoutCall(b, m, DEFAULT_LOAN_DAYS, NoCheckoutFault)]_vars

\* C37: a processReturn that succeeds and writes the item leaves the item available
\* whatever its status was, lost, damaged and retired included, changes nothing else
\* of the items, and the item then passes isAvailable and is given out by checkout to a
\* member in good standing.
C37_ReturnMakesItemAvailable ==
  [][(last'.op = "processReturn" /\ last'.success /\ last'.log = "") =>
       LET item == loans[RowOf(loans, last'.args[1])][3]
       IN  /\ HasRow(media, item)
           /\ media' = WithCell(media, item, 6, "available")
           /\ isAvailable(TRUE, media', item).data
           /\ checkout(borrowers', media', loans', generateId(nextId'), now', tz',
                       NoCheckoutFault, "m3", item, DEFAULT_LOAN_DAYS).success]_vars

\* the loan of an item that was marked lost, damaged or retired while out was
\* returned, and the item is available
C37_Witness ==
  /\ last.op = "processReturn" /\ last.success /\ last.log = ""
  /\ \E i \in 2..Len(media) :
       /\ media[i][1] = loans[RowOf(loans, last.args[1])][3]
       /\ last.before[i][6] \in {"lost", "damaged", "retired"}
       /\ media[i][6] = "available"

\* C38: after every operation of the loan service, the item of every loan that is
\* active or overdue is on loan, so that no available item has an open loan.
C38_OpenLoanMeansOnLoan ==
  \A n \in 2..Len(loans) :
    loans[n][7] \in {"active", "overdue"} =>
      /\ HasRow(media, loans[n][3])
      /\ media[RowOf(media, loans[n][3])][6] = "on-loan"

\* ---------------------------------------------------------------------------
\* An update and a delete on one sheet: the update reads, a row is deleted, the
\* update writes at the position it has read
\* ---------------------------------------------------------------------------

SpecDeleteRace ==
  /\ CheckoutRaceInit
  /\ [][\E p \in Callers :
          \/ \E id \in {"m1", "m2", "m3"} : UpdateBegin(p, id, [name |-> "Ann"], TRUE)
          \/ UpdateEnd(p)
          \/ \E id \in {"m1", "m2", "m3"} :
               LET r == delete(BorrowerSvc, TRUE, borrowers, id)
               IN  /\ p = 1
                   /\ r.success
                   /\ borrowers' = r.sheet
                   /\ last' = [last EXCEPT !.op = "delete", !.writes = @ + 1]
                   /\ UNCHANGED <<media, loans, nextId, now, tz, props, drive>>]_vars

\* the caller p is about to write, the sheet it has read holds no two rows under one
\* id, and the sheet now is the one it has read but for one row above the row of its
\* record, which has been deleted since
DeletedAbove(p) ==
  LET c == last.calls[p]
  IN  /\ last.op \in {"update", "delete"}
      /\ c.pc = "read"
      /\ Matches(c.data, c.id) # {}
      /\ \A a, b \in 2..Len(c.data) : a # b => c.data[a][1] # c.data[b][1]
      /\ Len(borrowers) = Len(c.data) - 1
      /\ \E j \in 2..(Min(Matches(c.data, c.id)) - 1) :
           borrowers = SubSeq(c.data, 1, j - 1) \o SubSeq(c.data, j + 1, Len(c.data))

\* the caller p has just written
Wrote(p) == last.calls[p].pc = "read" /\ last'.calls[p].pc = "done"

\* C39 as stated: when a row above the row of its record has been deleted between the
\* read and the write of an update, the update overwrites the row of another record,
\* which is in no row afterwards, and the id of the update is in two rows.
C39_UpdateOverwritesAnotherRecord ==
  [][\A p \in Callers :
       (DeletedAbove(p) /\ Wrote(p)) =>
         /\ Cardinality(Matches(borrowers', last.calls[p].id)) = 2
         /\ \E n \in 2..Len(borrowers) :
              /\ borrowers[n][1] # last.calls[p].id
              /\ Matches(borrowers', borrowers[n][1]) = {}]_vars

\* C39, amended: when a row above the row of its record has been deleted between the
\* read and the write of an update, the update succeeds and writes its record one row
\* below the row the record is in now, which stays as it was, so that the id is in two
\* rows; the record that was in the row written is in no row afterwards, and when the
\* record of the update was the last one the write makes a new row and no record is
\* lost.
C39_UpdateWritesOneRowBelow ==
  [][\A p \in Callers :
       (DeletedAbove(p) /\ Wrote(p)) =>
         LET c == last.calls[p]
             i == Min(Matches(c.data, c.id))
         IN  /\ last'.calls[p].success
             /\ borrowers[i - 1][1] = c.id
             /\ borrowers'[i - 1] = borrowers[i - 1]
             /\ borrowers'[i][1] = c.id /\ borrowers'[i][2] = c.updates.name
             /\ Matches(borrowers', c.id) = {i - 1, i}
             /\ \A n \in 2..Len(borrowers) : n # i => borrowers'[n] = borrowers[n]
             /\ IF i <= Len(borrowers)
                THEN /\ Len(borrowers') = Len(borrowers)
                     /\ borrowers[i][1] # c.id
                     /\ Matches(borrowers', borrowers[i][1]) = {}
                ELSE /\ Len(borrowers') = Len(borrowers) + 1
                     /\ \A n \in 2..Len(borrowers) :
                          Matches(borrowers', borrowers[n][1]) # {}]_vars

\* m1 was deleted while an update of m2 was between its read and its write: m2 is in
\* two rows, the second as the update wrote it, and m3 is in none
C39_Witness ==
  /\ last.op = "update"
  /\ \E p \in Callers : last.calls[p].pc = "done" /\ last.calls[p].success
                         /\ last.calls[p].id = "m2"
  /\ Len(borrowers) = 3
  /\ borrowers[2] = Member("m2", "suspended")
  /\ borrowers[3][1] = "m2" /\ borrowers[3][2] = "Ann"
  /\ Matches(borrowers, "m3") = {}

====
